---------------------------- MODULE Spec2Model ----------------------------
(***************************************************************************)
(* Model of scripts/enrich_jobs.py: the per-record enrichment classifier   *)
(* (process_jobs and its helper predicates) over the rule tables, the      *)
(* aggregation of the records (generate_market_intelligence) and the run   *)
(* of main that chains them and saves the results.                         *)
(*                                                                         *)
(* Text is modelled by TLA+ strings; Len, SubSeq, Head, Tail and \o act on *)
(* them character by character.  A cell of the raw data frame is a tagged  *)
(* record (see "Python values"), so that a missing value, a missing        *)
(* column, a number and a text stay distinguishable, as they are for       *)
(* pandas.                                                                 *)
(***************************************************************************)
EXTENDS Integers, Sequences, FiniteSets, TLC

VARIABLES
    caller, \* "main" for a run of main, "direct" for calls of process_jobs and
            \* generate_market_intelligence from outside main
    data,   \* the data directory as main finds it: whether it holds raw files
            \* and enriched CSVs, the content of its jobs.json, None when
            \* there is no such file, and the header line of its latest
            \* raw file: the columns, none for a file without one
    raw,    \* the frame the run receives: the latest raw file for main, the
            \* argument of process_jobs for another caller
    df,     \* the raw frame: as loaded, then as handed to process_jobs
    idx,    \* position of the iterrows() loop: index of the next row
    jobs,   \* the list of enriched records: built so far by process_jobs, or
            \* loaded from jobs.json
    intel,  \* the result of generate_market_intelligence, None before it returns
    files,  \* the files main has written
    pc      \* "start" when main begins, "load" after it read the raw file,
            \* "loop" while process_jobs iterates, "done" after it returns or
            \* jobs.json is loaded, "reported" after main's console report,
            \* "intel" after the aggregation, "saved" after main's saves,
            \* "returned" after main's early return, "exit" after exit(1),
            \* "raised" on an exception that leaves process_jobs,
            \* "EmptyDataError", "KeyError", "TypeError" and
            \* "ZeroDivisionError" on these exceptions leaving main

vars == <<caller, data, raw, df, idx, jobs, intel, files, pc>>

-----------------------------------------------------------------------------
(* Bounds of the model *)

\* Largest number of rows of a frame in the multi-row specification.
MaxRows == 3
\* Largest number of text fragments concatenated into a generated title,
\* description or location.
MaxFrags == 2

-----------------------------------------------------------------------------
(* Python values *)

NaN    == [k |-> "nan"]                 \* float('nan'): a missing value in a present column
None   == [k |-> "none"]                \* Python None
Absent == [k |-> "absent"]              \* the frame has no such column
Inf    == [k |-> "inf"]                 \* float('inf')
Str(s)   == [k |-> "str", s |-> s]
Bool(b)  == [k |-> "bool", b |-> b]
Integer(n)   == [k |-> "int", n |-> n]
\* A float with one decimal digit, held in tenths: Float(455) is 45.5.
Float(t) == [k |-> "float", t |-> t]

\* type(v) of a field of a record, by the way the model holds the value: a
\* list as a sequence, a text as a string, a flag as a Boolean, a count as
\* an integer, and every other value as one of the tagged values above.
type(v) ==
    LET shown == ToString(v)
    IN  IF Head(shown) = "<" THEN "list"
        ELSE IF Head(shown) = "\"" THEN "str"
        ELSE IF Head(shown) = "[" THEN v.k
        ELSE IF shown \in {"TRUE", "FALSE"} THEN "bool"
        ELSE "int"

\* pd.isna / pd.notna on a scalar.
isna(v)  == v.k \in {"nan", "none"}
notna(v) == ~isna(v)

\* row.get(col, default): the default only when the column is not in the frame.
row_get(row, col, default) == IF row[col] = Absent THEN default ELSE row[col]

\* bool(v) for the values a cell can hold.
truthy(v) ==
    CASE v.k = "bool"  -> v.b
      [] v.k = "str"   -> v.s # ""
      [] v.k = "int"   -> v.n # 0
      [] v.k = "float" -> v.t # 0
      [] v.k = "none"  -> FALSE
      [] OTHER         -> TRUE          \* nan and inf are non-zero floats

-----------------------------------------------------------------------------
(* Text primitives *)

UPPERCASE == "ABCDEFGHIJKLMNOPQRSTUVWXYZ"
LOWERCASE == "abcdefghijklmnopqrstuvwxyz"
DIGITS    == "0123456789"
\* The printable ASCII characters in code point order: 32 (space) to 95, and
\* 97 to 126 (the grave accent, 96, cannot be written in a TLA+ string).
ASCII_32_95  == " !\"#$%&'()*+,-./0123456789:;<=>?@ABCDEFGHIJKLMNOPQRSTUVWXYZ[\\]^_"
ASCII_97_126 == "abcdefghijklmnopqrstuvwxyz{|}~"

\* min(a, b), the end of a slice text[:n].
Min(a, b) == IF a <= b THEN a ELSE b

CharAt(s, i) == SubSeq(s, i, i)
CharsOf(s) == { CharAt(s, i) : i \in 1..Len(s) }

\* str(n) for an int n >= 0.
RECURSIVE nat_str(_)
nat_str(n) ==
    IF n < 10 THEN CharAt(DIGITS, n + 1)
    ELSE nat_str(n \div 10) \o CharAt(DIGITS, (n % 10) + 1)

\* str(v): text as it is, an int in decimal, a float of t tenths with its
\* one decimal ("4213.0", "-0.5"), and the names of the other values.
py_str(v) ==
    CASE v.k = "str"   -> v.s
      [] v.k = "nan"   -> "nan"
      [] v.k = "none"  -> "None"
      [] v.k = "inf"   -> "inf"
      [] v.k = "bool"  -> IF v.b THEN "True" ELSE "False"
      [] v.k = "int"   -> IF v.n < 0 THEN "-" \o nat_str(0 - v.n) ELSE nat_str(v.n)
      [] v.k = "float" -> IF v.t < 0
                          THEN "-" \o nat_str((0 - v.t) \div 10) \o "." \o nat_str((0 - v.t) % 10)
                          ELSE nat_str(v.t \div 10) \o "." \o nat_str(v.t % 10)

LowerOf ==
    [ c \in CharsOf(ASCII_32_95) \cup CharsOf(ASCII_97_126) |->
        IF c \in CharsOf(UPPERCASE)
        THEN CharAt(LOWERCASE, CHOOSE i \in 1..26 : CharAt(UPPERCASE, i) = c)
        ELSE c ]

\* ord(c) of a printable ASCII character.
Ord ==
    [ c \in CharsOf(ASCII_32_95) \cup CharsOf(ASCII_97_126) |->
        IF c \in CharsOf(ASCII_32_95)
        THEN 31 + CHOOSE i \in 1..Len(ASCII_32_95) : CharAt(ASCII_32_95, i) = c
        ELSE 96 + CHOOSE i \in 1..Len(ASCII_97_126) : CharAt(ASCII_97_126, i) = c ]

\* str.lower(), character by character (the text is halved rather than
\* peeled so that the evaluation depth stays logarithmic in its length).
RECURSIVE lower(_)
lower(s) ==
    IF s = "" THEN ""
    ELSE IF Len(s) = 1 THEN LowerOf[s]
    ELSE LET h == Len(s) \div 2
         IN  lower(SubSeq(s, 1, h)) \o lower(SubSeq(s, h + 1, Len(s)))

\* Python's  keyword in text  on strings.
contains(text, keyword) ==
    \E i \in 1..(Len(text) - Len(keyword) + 1) :
        SubSeq(text, i, i + Len(keyword) - 1) = keyword

\* for keyword, label in table: if keyword in text: return ...
\* The index in lo..hi of the first pair of table whose keyword occurs in
\* text, 0 if there is none (the range is halved, first half first, so that
\* the evaluation depth stays logarithmic in the length of the table).
RECURSIVE first_match(_, _, _, _)
first_match(table, text, lo, hi) ==
    IF lo > hi THEN 0
    ELSE IF lo = hi THEN (IF contains(text, table[lo][1]) THEN lo ELSE 0)
    ELSE LET mid   == (lo + hi) \div 2
             early == first_match(table, text, lo, mid)
         IN  IF early # 0 THEN early ELSE first_match(table, text, mid + 1, hi)

\* a < b on strings: lexicographic by code point.
RECURSIVE str_less(_, _)
str_less(a, b) ==
    IF b = "" THEN FALSE
    ELSE IF a = "" THEN TRUE
    ELSE IF Head(a) # Head(b) THEN Ord[Head(a)] < Ord[Head(b)]
    ELSE str_less(Tail(a), Tail(b))

\* sorted(list(S)) for a set S of strings.
RECURSIVE sorted(_)
sorted(S) ==
    IF S = {} THEN <<>>
    ELSE LET m == CHOOSE x \in S : \A y \in S : ~str_less(y, x)
         IN  <<m>> \o sorted(S \ {m})

-----------------------------------------------------------------------------
(* CONFIGURATION: the rule tables *)

\* Keyword variant -> canonical skill name, in the order the dict literal lists them.
SKILL_KEYWORDS ==
    << <<"langchain", "LangChain">>,
       <<"llamaindex", "LlamaIndex">>,
       <<"llama index", "LlamaIndex">>,
       <<"semantic kernel", "Semantic Kernel">>,
       <<"haystack", "Haystack">>,
       <<"autogen", "AutoGen">>,
       <<"crewai", "CrewAI">>,
       <<"dspy", "DSPy">>,
       <<"openai", "OpenAI">>,
       <<"anthropic", "Anthropic">>,
       <<"claude", "Claude">>,
       <<"gpt-4", "GPT-4">>,
       <<"gpt-3", "GPT-3">>,
       <<"gpt4", "GPT-4">>,
       <<"llama", "Llama">>,
       <<"mistral", "Mistral">>,
       <<"gemini", "Gemini">>,
       <<"cohere", "Cohere">>,
       <<"hugging face", "Hugging Face">>,
       <<"huggingface", "Hugging Face">>,
       <<"rag", "RAG">>,
       <<"retrieval augmented", "RAG">>,
       <<"fine-tuning", "Fine-tuning">>,
       <<"fine tuning", "Fine-tuning">>,
       <<"prompt engineering", "Prompt Engineering">>,
       <<"embeddings", "Embeddings">>,
       <<"vector search", "Vector Search">>,
       <<"rlhf", "RLHF">>,
       <<"chain of thought", "Chain of Thought">>,
       <<"multimodal", "Multimodal">>,
       <<"agentic", "AI Agents">>,
       <<"ai agent", "AI Agents">>,
       <<"pinecone", "Pinecone">>,
       <<"weaviate", "Weaviate">>,
       <<"milvus", "Milvus">>,
       <<"qdrant", "Qdrant">>,
       <<"chroma", "Chroma">>,
       <<"pgvector", "pgvector">>,
       <<"faiss", "FAISS">>,
       <<"pytorch", "PyTorch">>,
       <<"tensorflow", "TensorFlow">>,
       <<"transformers", "Transformers">>,
       <<"jax", "JAX">>,
       <<"keras", "Keras">>,
       <<"scikit-learn", "scikit-learn">>,
       <<"sklearn", "scikit-learn">>,
       <<"python", "Python">>,
       <<"typescript", "TypeScript">>,
       <<"javascript", "JavaScript">>,
       <<"rust", "Rust">>,
       <<"golang", "Go">>,
       <<" go ", "Go">>,
       <<"aws", "AWS">>,
       <<"azure", "Azure">>,
       <<"gcp", "GCP">>,
       <<"google cloud", "GCP">>,
       <<"kubernetes", "Kubernetes">>,
       <<"docker", "Docker">>,
       <<"mlflow", "MLflow">>,
       <<"wandb", "Weights & Biases">>,
       <<"weights & biases", "Weights & Biases">>,
       <<"sagemaker", "SageMaker">>,
       <<"bedrock", "Bedrock">>,
       <<"vertex ai", "Vertex AI">> >>

\* Canonical skill name -> skill category used to group skills in the summary.
SKILL_CATEGORIES ==
    << <<"LangChain", "LLM Frameworks">>,
       <<"LlamaIndex", "LLM Frameworks">>,
       <<"Semantic Kernel", "LLM Frameworks">>,
       <<"Haystack", "LLM Frameworks">>,
       <<"AutoGen", "LLM Frameworks">>,
       <<"CrewAI", "LLM Frameworks">>,
       <<"DSPy", "LLM Frameworks">>,
       <<"OpenAI", "LLM Providers">>,
       <<"Anthropic", "LLM Providers">>,
       <<"Claude", "LLM Providers">>,
       <<"GPT-4", "LLM Providers">>,
       <<"GPT-3", "LLM Providers">>,
       <<"Llama", "LLM Providers">>,
       <<"Mistral", "LLM Providers">>,
       <<"Gemini", "LLM Providers">>,
       <<"Cohere", "LLM Providers">>,
       <<"Hugging Face", "LLM Providers">>,
       <<"RAG", "Techniques">>,
       <<"Fine-tuning", "Techniques">>,
       <<"Prompt Engineering", "Techniques">>,
       <<"Embeddings", "Techniques">>,
       <<"Vector Search", "Techniques">>,
       <<"RLHF", "Techniques">>,
       <<"Chain of Thought", "Techniques">>,
       <<"Multimodal", "Techniques">>,
       <<"AI Agents", "Techniques">>,
       <<"Pinecone", "Vector Databases">>,
       <<"Weaviate", "Vector Databases">>,
       <<"Milvus", "Vector Databases">>,
       <<"Qdrant", "Vector Databases">>,
       <<"Chroma", "Vector Databases">>,
       <<"pgvector", "Vector Databases">>,
       <<"FAISS", "Vector Databases">>,
       <<"PyTorch", "ML Frameworks">>,
       <<"TensorFlow", "ML Frameworks">>,
       <<"Transformers", "ML Frameworks">>,
       <<"JAX", "ML Frameworks">>,
       <<"Keras", "ML Frameworks">>,
       <<"scikit-learn", "ML Frameworks">>,
       <<"Python", "Languages">>,
       <<"TypeScript", "Languages">>,
       <<"JavaScript", "Languages">>,
       <<"Rust", "Languages">>,
       <<"Go", "Languages">>,
       <<"AWS", "Cloud/Infrastructure">>,
       <<"Azure", "Cloud/Infrastructure">>,
       <<"GCP", "Cloud/Infrastructure">>,
       <<"Kubernetes", "Cloud/Infrastructure">>,
       <<"Docker", "Cloud/Infrastructure">>,
       <<"MLflow", "Cloud/Infrastructure">>,
       <<"Weights & Biases", "Cloud/Infrastructure">>,
       <<"SageMaker", "Cloud/Infrastructure">>,
       <<"Bedrock", "Cloud/Infrastructure">>,
       <<"Vertex AI", "Cloud/Infrastructure">> >>

\* Job categorization rules <<keyword, category>>; first match wins.
CATEGORY_RULES ==
    << <<"prompt engineer", "Prompt Engineer">>,
       <<"prompt specialist", "Prompt Engineer">>,
       <<"ai agent", "AI Agent Developer">>,
       <<"agent developer", "AI Agent Developer">>,
       <<"agent engineer", "AI Agent Developer">>,
       <<"rag engineer", "RAG Engineer">>,
       <<"rag developer", "RAG Engineer">>,
       <<"llm engineer", "LLM Engineer">>,
       <<"llm developer", "LLM Engineer">>,
       <<"llm specialist", "LLM Engineer">>,
       <<"large language model", "LLM Engineer">>,
       <<"mlops", "MLOps Engineer">>,
       <<"ml ops", "MLOps Engineer">>,
       <<"ml infrastructure", "MLOps Engineer">>,
       <<"ml platform", "MLOps Engineer">>,
       <<"machine learning platform", "MLOps Engineer">>,
       <<"ai infrastructure", "MLOps Engineer">>,
       <<"ai platform engineer", "MLOps Engineer">>,
       <<"ai safety", "AI Safety">>,
       <<"ai ethics", "AI Safety">>,
       <<"responsible ai", "AI Safety">>,
       <<"ai governance", "AI Safety">>,
       <<"ai product manager", "AI Product Manager">>,
       <<"product manager ai", "AI Product Manager">>,
       <<"product manager ml", "AI Product Manager">>,
       <<"product manager, ai", "AI Product Manager">>,
       <<"product manager, ml", "AI Product Manager">>,
       <<"ml product manager", "AI Product Manager">>,
       <<"ai pm", "AI Product Manager">>,
       <<"applied scientist", "Research Scientist">>,
       <<"research scientist", "Research Scientist">>,
       <<"staff scientist", "Research Scientist">>,
       <<"ml scientist", "Research Scientist">>,
       <<"ai scientist", "Research Scientist">>,
       <<"research engineer", "Research Engineer">>,
       <<"ml research", "Research Engineer">>,
       <<"ai research", "Research Engineer">>,
       <<"artificial intelligence engineer", "AI/ML Engineer">>,
       <<"machine learning engineer", "AI/ML Engineer">>,
       <<"ml engineer", "AI/ML Engineer">>,
       <<"ai engineer", "AI/ML Engineer">>,
       <<"ai/ml engineer", "AI/ML Engineer">>,
       <<"ai developer", "AI/ML Engineer">>,
       <<"ml developer", "AI/ML Engineer">>,
       <<"nlp engineer", "AI/ML Engineer">>,
       <<"natural language", "AI/ML Engineer">>,
       <<"deep learning engineer", "AI/ML Engineer">>,
       <<"deep learning", "AI/ML Engineer">>,
       <<"generative ai", "AI/ML Engineer">>,
       <<"gen ai", "AI/ML Engineer">>,
       <<"genai", "AI/ML Engineer">>,
       <<"computer vision engineer", "AI/ML Engineer">>,
       <<"computer vision", "AI/ML Engineer">>,
       <<"cv engineer", "AI/ML Engineer">>,
       <<"speech recognition", "AI/ML Engineer">>,
       <<"speech engineer", "AI/ML Engineer">>,
       <<"recommendation system", "AI/ML Engineer">>,
       <<"recommendations engineer", "AI/ML Engineer">>,
       <<"software engineer, ai", "AI Software Engineer">>,
       <<"software engineer, ml", "AI Software Engineer">>,
       <<"software engineer - ai", "AI Software Engineer">>,
       <<"software engineer - ml", "AI Software Engineer">>,
       <<"sr. software engineer, ai", "AI Software Engineer">>,
       <<"senior software engineer, ai", "AI Software Engineer">>,
       <<"ai software engineer", "AI Software Engineer">>,
       <<"ai full-stack", "AI Software Engineer">>,
       <<"ai-native", "AI Software Engineer">>,
       <<"ai backend", "AI Software Engineer">>,
       <<"engineering manager, ai", "AI Engineering Manager">>,
       <<"engineering manager, ml", "AI Engineering Manager">>,
       <<"engineering manager - ai", "AI Engineering Manager">>,
       <<"ai engineering manager", "AI Engineering Manager">>,
       <<"ml engineering manager", "AI Engineering Manager">>,
       <<"manager, ai", "AI Engineering Manager">>,
       <<"manager, ml", "AI Engineering Manager">>,
       <<"manager, applied ai", "AI Engineering Manager">>,
       <<"head of ai", "AI Engineering Manager">>,
       <<"head of ml", "AI Engineering Manager">>,
       <<"director of ai", "AI Engineering Manager">>,
       <<"director of ml", "AI Engineering Manager">>,
       <<"vp of ai", "AI Engineering Manager">>,
       <<"vp, ai", "AI Engineering Manager">>,
       <<"ai architect", "AI Architect">>,
       <<"ml architect", "AI Architect">>,
       <<"ai enterprise architect", "AI Architect">>,
       <<"cloud ai architect", "AI Architect">>,
       <<"solutions architect, ai", "AI Architect">>,
       <<"solutions architect ai", "AI Architect">>,
       <<"data scientist", "Data Scientist">>,
       <<"senior data scientist", "Data Scientist">>,
       <<"staff data scientist", "Data Scientist">>,
       <<"principal data scientist", "Data Scientist">>,
       <<"lead data scientist", "Data Scientist">>,
       <<"data engineer", "Data Engineer">>,
       <<"senior data engineer", "Data Engineer">>,
       <<"lead data engineer", "Data Engineer">>,
       <<"staff data engineer", "Data Engineer">>,
       <<"data engineering", "Data Engineer">>,
       <<"analytics engineer", "Data Engineer">>,
       <<"ai devops", "AI/ML Engineer">>,
       <<"ai cloud", "AI/ML Engineer">>,
       <<"ai infrastructure engineer", "AI/ML Engineer">>,
       <<"ai consultant", "AI Consultant">>,
       <<"ai specialist", "AI Consultant">>,
       <<"ai functional", "AI Consultant">>,
       <<"ai advisor", "AI Consultant">>,
       <<"ai product architect", "AI Product Manager">>,
       <<"ai/ml product", "AI Product Manager">>,
       <<"product architect, ai", "AI Product Manager">>,
       <<"ai native", "AI Software Engineer">>,
       <<"ai-native", "AI Software Engineer">>,
       <<"sr. developer ai", "AI Software Engineer">>,
       <<"developer ai", "AI Software Engineer">>,
       <<"developer, ai", "AI Software Engineer">>,
       <<"language engineer", "AI/ML Engineer">>,
       <<"agi ", "AI/ML Engineer">>,
       <<"artificial general intelligence", "AI/ML Engineer">>,
       <<", ai", "AI/ML Engineer">>,
       <<"- ai", "AI/ML Engineer">>,
       <<" ai ", "AI/ML Engineer">>,
       <<" ai/", "AI/ML Engineer">>,
       <<"/ai ", "AI/ML Engineer">> >>

\* Location alias -> canonical metro, in dict order.
METRO_MAPPING ==
    << <<"san francisco", "San Francisco">>,
       <<"sf", "San Francisco">>,
       <<"bay area", "San Francisco">>,
       <<"palo alto", "San Francisco">>,
       <<"menlo park", "San Francisco">>,
       <<"mountain view", "San Francisco">>,
       <<"sunnyvale", "San Francisco">>,
       <<"san jose", "San Francisco">>,
       <<"new york", "New York">>,
       <<"nyc", "New York">>,
       <<"manhattan", "New York">>,
       <<"brooklyn", "New York">>,
       <<"seattle", "Seattle">>,
       <<"austin", "Austin">>,
       <<"boston", "Boston">>,
       <<"los angeles", "Los Angeles">>,
       <<"la", "Los Angeles">>,
       <<"chicago", "Chicago">>,
       <<"denver", "Denver">>,
       <<"atlanta", "Atlanta">>,
       <<"remote", "Remote">> >>

\* Seniority level -> keywords, in dict order.
SENIORITY_PATTERNS ==
    << <<"C-Level", <<"chief", "cto", "cio", "cao", "cdo", "head of ai", "vp of ai">> >>,
       <<"VP", <<"vice president", "vp ", " vp,", "vp,">> >>,
       <<"Director", <<"director", "head of">> >>,
       <<"Senior", <<"senior", "sr.", "sr ", "staff", "principal", "lead">> >>,
       <<"Mid", <<"mid", "ii", "iii">> >>,
       <<"Entry", <<"junior", "jr.", "jr ", "entry", "associate", " i ", " 1 ">> >> >>

\* Tech company indicators.
TECH_COMPANY_KEYWORDS ==
    << "software", "saas", "tech", "ai", "cloud", "data", "platform",
       "digital", "cyber", "fintech", "analytics", "machine learning",
       "automation", "api", "infrastructure", "labs", "systems",
       "intelligence", "robotics", "computing", "neural", "cognitive" >>

\* Company stage -> indicator phrases, in dict order.
COMPANY_STAGE_PATTERNS ==
    << <<"Startup (Seed)", <<"seed", "pre-seed", "angel">> >>,
       <<"Startup (Series A-B)", <<"series a", "series b", "early stage", "early-stage">> >>,
       <<"Growth (Series C+)", <<"series c", "series d", "series e", "growth stage", "growth-stage", "late stage">> >>,
       <<"Enterprise/Public", <<"fortune 500", "fortune500", "public company", "nasdaq", "nyse", "enterprise">> >> >>

\* Buzzwords tracked for insights.
AI_BUZZWORDS ==
    << "production-ready", "scalable", "enterprise-grade",
       "state-of-the-art", "cutting-edge", "innovative", "groundbreaking",
       "revolutionary", "next-generation", "world-class", "fast-paced",
       "dynamic", "collaborative", "cross-functional", "end-to-end",
       "full-stack" >>

\* Red flag category -> phrases, in dict order.
RED_FLAG_PATTERNS ==
    << <<"vague_compensation", <<"competitive salary", "competitive compensation", "commensurate with experience">> >>,
       <<"unrealistic_requirements", <<"10+ years", "10 years", "phd required", "must have phd">> >>,
       <<"overwork_signals", <<"wear many hats", "fast-paced", "startup mentality", "hustle", "24/7">> >>,
       <<"vague_role", <<"various duties", "other duties as assigned", "jack of all trades">> >> >>
-----------------------------------------------------------------------------
(* Helper predicates of the enrichment classifier.  Their arguments are    *)
(* Python values (cells); process_jobs hands them str() results.           *)

\* extract_skills searching the description as written, without lower-casing.
extract_skills_case_sensitive(text) ==
    IF ~truthy(text) \/ isna(text) THEN <<>>
    ELSE sorted({ SKILL_KEYWORDS[i][2] :
                    i \in { j \in DOMAIN SKILL_KEYWORDS :
                              contains(py_str(text), SKILL_KEYWORDS[j][1]) } })

\* Extract skills from job description: collect-all, deduplicated, sorted.
extract_skills(text) ==
    IF ~truthy(text) \/ isna(text) THEN <<>>
    ELSE LET text_lower == lower(py_str(text))
             found_skills == { SKILL_KEYWORDS[i][2] :
                                 i \in { j \in DOMAIN SKILL_KEYWORDS :
                                           contains(text_lower, SKILL_KEYWORDS[j][1]) } }
         IN  sorted(found_skills)

\* categorize_job letting the last matching rule win.
categorize_job_last_match(title) ==
    IF ~truthy(title) \/ isna(title) THEN "Other AI Role"
    ELSE LET title_lower == lower(py_str(title))
             hits == { i \in DOMAIN CATEGORY_RULES : contains(title_lower, CATEGORY_RULES[i][1]) }
         IN  IF hits = {} THEN "Other AI Role"
             ELSE CATEGORY_RULES[CHOOSE i \in hits : \A j \in hits : j <= i][2]

\* Categorize job based on title.
categorize_job(title) ==
    IF ~truthy(title) \/ isna(title) THEN "Other AI Role"
    ELSE LET title_lower == lower(py_str(title))
             hit == first_match(CATEGORY_RULES, title_lower, 1, Len(CATEGORY_RULES))
         IN  IF hit # 0 THEN CATEGORY_RULES[hit][2] ELSE "Other AI Role"

\* determine_remote_type testing "hybrid" before the flag and "remote".
determine_remote_type_hybrid_first(row) ==
    LET is_remote == row_get(row, "is_remote", Bool(FALSE))
        location  == lower(py_str(row_get(row, "location", Str(""))))
    IN  IF contains(location, "hybrid") THEN "hybrid"
        ELSE IF truthy(is_remote) \/ contains(location, "remote") THEN "remote"
        ELSE "onsite"

\* Determine if job is remote, hybrid, or onsite.
determine_remote_type(row) ==
    LET is_remote == row_get(row, "is_remote", Bool(FALSE))
        location  == lower(py_str(row_get(row, "location", Str(""))))
    IN  IF truthy(is_remote) \/ contains(location, "remote") THEN "remote"
        ELSE IF contains(location, "hybrid") THEN "hybrid"
        ELSE "onsite"

\* any(word in text for word in words)
any_in(text, words) == \E i \in DOMAIN words : contains(text, words[i])

\* determine_experience_level testing the entry keywords before the senior
\* ones.
determine_experience_level_entry_first(title, description) ==
    LET text == lower(py_str(title) \o " " \o py_str(description))
    IN  IF any_in(text, <<"junior", "jr.", "jr ", "entry", "associate", " i ", " ii ">>)
        THEN "entry"
        ELSE IF any_in(text, <<"senior", "sr.", "sr ", "lead", "principal", "staff", "head of", "director">>)
        THEN "senior"
        ELSE "mid"

\* Determine experience level from title/description.
determine_experience_level(title, description) ==
    LET text == lower(py_str(title) \o " " \o py_str(description))
    IN  IF any_in(text, <<"senior", "sr.", "sr ", "lead", "principal", "staff", "head of", "director">>)
        THEN "senior"
        ELSE IF any_in(text, <<"junior", "jr.", "jr ", "entry", "associate", " i ", " ii ">>)
        THEN "entry"
        ELSE "mid"

\* normalize_metro letting the last matching alias win.
normalize_metro_last_alias(location) ==
    IF ~truthy(location) \/ isna(location) THEN None
    ELSE LET location_lower == lower(py_str(location))
             hits == { i \in DOMAIN METRO_MAPPING : contains(location_lower, METRO_MAPPING[i][1]) }
         IN  IF hits = {} THEN None
             ELSE Str(METRO_MAPPING[CHOOSE i \in hits : \A j \in hits : j <= i][2])

\* Normalize location to metro area.
normalize_metro(location) ==
    IF ~truthy(location) \/ isna(location) THEN None
    ELSE LET location_lower == lower(py_str(location))
             hit == first_match(METRO_MAPPING, location_lower, 1, Len(METRO_MAPPING))
         IN  IF hit # 0 THEN Str(METRO_MAPPING[hit][2]) ELSE None

\* The nested for loops over a level -> patterns table from group i on;
\* the label of the first group with a matching pattern, else the default.
RECURSIVE first_group(_, _, _, _)
first_group(table, text, i, default) ==
    IF i > Len(table) THEN default
    ELSE IF any_in(text, table[i][2]) THEN table[i][1]
    ELSE first_group(table, text, i + 1, default)

\* classify_seniority letting the last group with a keyword win.
classify_seniority_last_group(title) ==
    IF ~truthy(title) \/ isna(title) THEN "Mid"
    ELSE LET title_lower == lower(py_str(title))
             hits == { i \in DOMAIN SENIORITY_PATTERNS : any_in(title_lower, SENIORITY_PATTERNS[i][2]) }
         IN  IF hits = {} THEN "Mid"
             ELSE SENIORITY_PATTERNS[CHOOSE i \in hits : \A j \in hits : j <= i][1]

\* Classify job seniority level from title.
classify_seniority(title) ==
    IF ~truthy(title) \/ isna(title) THEN "Mid"
    ELSE first_group(SENIORITY_PATTERNS, lower(py_str(title)), 1, "Mid")

\* detect_tech_company without the guard on the company.
detect_tech_company_unguarded(company, description) ==
    any_in(lower(py_str(company) \o " " \o py_str(description)), TECH_COMPANY_KEYWORDS)

\* Detect if company is a tech company.
detect_tech_company(company, description) ==
    IF ~truthy(company) THEN FALSE
    ELSE any_in(lower(py_str(company) \o " " \o py_str(description)), TECH_COMPANY_KEYWORDS)

\* Detect company stage from job description.
detect_company_stage(description) ==
    IF ~truthy(description) \/ isna(description) THEN "Unknown"
    ELSE first_group(COMPANY_STAGE_PATTERNS, lower(py_str(description)), 1, "Unknown")

\* calculate_data_quality counting a description of exactly 100 characters
\* and accepting the "Unknown" company placeholder.
calculate_data_quality_off_by_one(row) ==
    LET description == row_get(row, "description", None)
        location    == row_get(row, "location", None)
        company     == row_get(row, "company", None)
    IN    (IF notna(description) /\ Len(py_str(description)) >= 100 THEN 40 ELSE 0)
        + (IF notna(row_get(row, "min_amount", None)) \/ notna(row_get(row, "max_amount", None))
           THEN 30 ELSE 0)
        + (IF notna(location) /\ py_str(location) \notin {"", "nan", "None"} THEN 15 ELSE 0)
        + (IF notna(company) /\ py_str(company) \notin {"", "nan", "None"} THEN 15 ELSE 0)

\* Calculate data quality score (0-100); row is row.to_dict().
calculate_data_quality(row) ==
    LET description == row_get(row, "description", None)
        location    == row_get(row, "location", None)
        company     == row_get(row, "company", None)
    IN    (IF notna(description) /\ Len(py_str(description)) > 100 THEN 40 ELSE 0)
        + (IF notna(row_get(row, "min_amount", None)) \/ notna(row_get(row, "max_amount", None))
           THEN 30 ELSE 0)
        + (IF notna(location) /\ py_str(location) \notin {"", "nan", "None"} THEN 15 ELSE 0)
        + (IF notna(company) /\ py_str(company) \notin {"", "nan", "None", "Unknown"} THEN 15 ELSE 0)

\* Convert quality score to label.
get_data_quality_label(score) ==
    IF score >= 85 THEN "Premium"
    ELSE IF score >= 55 THEN "Good"
    ELSE "Basic"

\* extract_red_flags without the break: a category is appended once per
\* matching phrase.
extract_red_flags_per_phrase(description) ==
    IF ~truthy(description) \/ isna(description) THEN <<>>
    ELSE LET desc_lower == lower(py_str(description))
             RECURSIVE flags(_)
             flags(i) ==
                 IF i = 0 THEN <<>>
                 ELSE flags(i - 1) \o
                      SelectSeq([p \in DOMAIN RED_FLAG_PATTERNS[i][2] |->
                                    IF contains(desc_lower, RED_FLAG_PATTERNS[i][2][p])
                                    THEN RED_FLAG_PATTERNS[i][1] ELSE ""],
                                LAMBDA f : f # "")
         IN  flags(Len(RED_FLAG_PATTERNS))

\* Extract red flags from job description: each category once, in table order.
extract_red_flags(description) ==
    IF ~truthy(description) \/ isna(description) THEN <<>>
    ELSE LET desc_lower == lower(py_str(description))
         IN  SelectSeq([i \in DOMAIN RED_FLAG_PATTERNS |->
                           IF any_in(desc_lower, RED_FLAG_PATTERNS[i][2])
                           THEN RED_FLAG_PATTERNS[i][1] ELSE ""],
                       LAMBDA f : f # "")

\* Extract buzzwords from job description: every matching phrase, in table order.
extract_buzzwords(description) ==
    IF ~truthy(description) \/ isna(description) THEN <<>>
    ELSE LET desc_lower == lower(py_str(description))
         IN  SelectSeq(AI_BUZZWORDS, LAMBDA b : contains(desc_lower, b))

-----------------------------------------------------------------------------
(* Salary coercion *)

is_digits(s) == \A i \in 1..Len(s) : CharAt(s, i) \in CharsOf(DIGITS)

\* int(s) for a text of digits, "" counting as 0.
RECURSIVE digits_value(_)
digits_value(s) ==
    IF s = "" THEN 0
    ELSE 10 * digits_value(SubSeq(s, 1, Len(s) - 1)) + (Ord[CharAt(s, Len(s))] - 48)

\* The white space float() strips from the ends of a text: the six ASCII
\* characters of isspace() in C (space, \t, \n, \r, \f and the vertical
\* tab, code 11), and the white space beyond ASCII, which float() turns into
\* spaces first (of it the next line, code 133, and the no-break space, code
\* 160, are the two a string of the model can hold).  The separators of
\* codes 28 to 31 are not stripped.
WHITESPACE == {" ", "\t", "\n", "\r", "\f", "", "", " "}

strip(s) ==
    LET inner == { i \in 1..Len(s) : CharAt(s, i) \notin WHITESPACE }
    IN  IF inner = {} THEN ""
        ELSE SubSeq(s, CHOOSE i \in inner : \A j \in inner : i <= j,
                       CHOOSE i \in inner : \A j \in inner : i >= j)

\* Digits, with single underscores between digits allowed.
is_digit_group(s) ==
    /\ s # ""
    /\ \A i \in 1..Len(s) :
           \/ CharAt(s, i) \in CharsOf(DIGITS)
           \/ /\ CharAt(s, i) = "_"
              /\ 1 < i /\ i < Len(s)
              /\ CharAt(s, i - 1) \in CharsOf(DIGITS)
              /\ CharAt(s, i + 1) \in CharsOf(DIGITS)

\* s without its underscores.
RECURSIVE without_underscores(_)
without_underscores(s) ==
    IF s = "" THEN ""
    ELSE IF Len(s) = 1 THEN (IF s = "_" THEN "" ELSE s)
    ELSE LET h == Len(s) \div 2
         IN  without_underscores(SubSeq(s, 1, h)) \o without_underscores(SubSeq(s, h + 1, Len(s)))

\* s without its leading zeros.
without_leading_zeros(s) ==
    LET rest == { i \in 1..Len(s) : CharAt(s, i) # "0" }
    IN  IF rest = {} THEN ""
        ELSE SubSeq(s, CHOOSE i \in rest : \A j \in rest : i <= j, Len(s))

\* n zeros.
RECURSIVE zeros(_)
zeros(n) ==
    IF n <= 0 THEN ""
    ELSE IF n = 1 THEN "0"
    ELSE zeros(n \div 2) \o zeros(n - n \div 2)

\* 0.a >= 0.b for texts of digits a and b.
fraction_geq(a, b) ==
    LET n     == IF Len(a) > Len(b) THEN Len(a) ELSE Len(b)
        x     == a \o zeros(n - Len(a))
        y     == b \o zeros(n - Len(b))
        apart == { i \in 1..n : CharAt(x, i) # CharAt(y, i) }
        first == CHOOSE i \in apart : \A j \in apart : i <= j
    IN  apart = {} \/ Ord[CharAt(x, first)] > Ord[CharAt(y, first)]

\* n.bit_length() for n >= 0.
RECURSIVE bit_length(_)
bit_length(n) == IF n = 0 THEN 0 ELSE 1 + bit_length(n \div 2)

\* The decimals of 1 - 2^-m for m = 23..54, at index m - 22: a number with
\* integer part W below 2^31 and a fraction of at least 1 - 2^-m, where
\* m = 54 - W.bit_length(), is nearer to the double W + 1 than to the
\* greatest double below it, or halfway (and W + 1 is the even one).
ROUNDS_UP_FROM ==
    << "99999988079071044921875",
       "999999940395355224609375",
       "9999999701976776123046875",
       "99999998509883880615234375",
       "999999992549419403076171875",
       "9999999962747097015380859375",
       "99999999813735485076904296875",
       "999999999068677425384521484375",
       "9999999995343387126922607421875",
       "99999999976716935634613037109375",
       "999999999883584678173065185546875",
       "9999999999417923390865325927734375",
       "99999999997089616954326629638671875",
       "999999999985448084771633148193359375",
       "9999999999927240423858165740966796875",
       "99999999999636202119290828704833984375",
       "999999999998181010596454143524169921875",
       "9999999999990905052982270717620849609375",
       "99999999999954525264911353588104248046875",
       "999999999999772626324556767940521240234375",
       "9999999999998863131622783839702606201171875",
       "99999999999994315658113919198513031005859375",
       "999999999999971578290569595992565155029296875",
       "9999999999999857891452847979962825775146484375",
       "99999999999999289457264239899814128875732421875",
       "999999999999996447286321199499070644378662109375",
       "9999999999999982236431605997495353221893310546875",
       "99999999999999911182158029987476766109466552734375",
       "999999999999999555910790149937383830547332763671875",
       "9999999999999997779553950749686919152736663818359375",
       "99999999999999988897769753748434595763683319091796875",
       "999999999999999944488848768742172978818416595458984375" >>

\* 2^1024 - 2^970: a decimal text of this value or more is float('inf').
FLOAT_OVERFLOW ==
    "179769313486231580793728971405303415079934132710037826936173778980444968292764750946649017977587207096330286416692887910946555547851940402630657488671505820681908902000708383676273854845817711531764475730270069855571366959622842914819860834936475292719074168444365510704342711559699508093042880177904174497792"

\* The digits with the point placed after the first `point` of them: the
\* digits before the point without leading zeros, and the digits after.
place_point(negative, digits, point) ==
    [ok       |-> TRUE,
     negative |-> negative,
     whole    |-> without_leading_zeros(
                      IF point <= 0 THEN ""
                      ELSE IF point >= Len(digits)
                      THEN digits \o zeros(point - Len(digits))
                      ELSE SubSeq(digits, 1, point)),
     frac     |-> IF point <= 0 THEN zeros(0 - point) \o digits
                  ELSE IF point >= Len(digits) THEN ""
                  ELSE SubSeq(digits, point + 1, Len(digits))]

NOT_A_FLOAT == [ok |-> FALSE, negative |-> FALSE, whole |-> "", frac |-> ""]

\* The exponent e, a text of digits, applied to the digits w before and f
\* after the point.  Beyond the limit every non-zero number is inf or 0.0,
\* so a longer exponent is cut to it.
apply_exponent(negative, w, f, down, e) ==
    LET limit == Len(w) + Len(f) + 400
        shift == IF Len(e) > 4 \/ digits_value(e) > limit THEN limit ELSE digits_value(e)
    IN  place_point(negative, w \o f, IF down THEN Len(w) - shift ELSE Len(w) + shift)

\* A mantissa and an exponent part: digits on at least one side of at most
\* one point, and digits in the exponent when there is one, each with
\* single underscores between digits allowed.
float_parts(negative, mant, has_exponent, expo) ==
    LET dots    == { i \in 1..Len(mant) : CharAt(mant, i) = "." }
        d       == IF dots = {} THEN Len(mant) + 1 ELSE CHOOSE i \in dots : TRUE
        whole   == SubSeq(mant, 1, d - 1)
        frac    == SubSeq(mant, d + 1, Len(mant))
        esigned == expo # "" /\ Head(expo) \in {"+", "-"}
        edigits == IF esigned THEN Tail(expo) ELSE expo
    IN  IF /\ Cardinality(dots) <= 1
           /\ whole = "" \/ is_digit_group(whole)
           /\ frac = "" \/ is_digit_group(frac)
           /\ whole # "" \/ frac # ""
           /\ has_exponent => is_digit_group(edigits)
        THEN apply_exponent(negative, without_underscores(whole), without_underscores(frac),
                            esigned /\ Head(expo) = "-",
                            without_leading_zeros(without_underscores(edigits)))
        ELSE NOT_A_FLOAT

\* The text after the sign: the mantissa up to the first e or E, the
\* exponent after it.
float_body(negative, body) ==
    LET marks == { i \in 1..Len(body) : CharAt(body, i) \in {"e", "E"} }
        m     == IF marks = {} THEN Len(body) + 1
                 ELSE CHOOSE i \in marks : \A j \in marks : i <= j
    IN  float_parts(negative, SubSeq(body, 1, m - 1), marks # {},
                    SubSeq(body, m + 1, Len(body)))

\* The stripped text: an optional sign, then the body.
float_stripped(t) ==
    IF t # "" /\ Head(t) \in {"+", "-"} THEN float_body(Head(t) = "-", Tail(t))
    ELSE float_body(FALSE, t)

\* float(s) of a text as a decimal expansion: ok is FALSE when float()
\* raises ValueError or returns inf or nan for one of their names, which
\* int() rejects.  float() strips white space and accepts
\* [sign] digits [. digits] [e [sign] digits].  whole and frac are the
\* digits before and after the point once the exponent is applied.
float_text(s) == float_stripped(strip(s))

\* int() of the double nearest to a decimal expansion x: OverflowError for
\* a number that rounds to inf; else the integer part, and the next integer
\* when the fraction is close enough to 1.  The result is computed for
\* numbers below 2^31.
int_of_decimal(x) ==
    IF \/ ~x.ok
       \/ Len(x.whole) > Len(FLOAT_OVERFLOW)
       \/ Len(x.whole) = Len(FLOAT_OVERFLOW) /\ fraction_geq(x.whole \o x.frac, FLOAT_OVERFLOW)
    THEN [ok |-> FALSE, n |-> 0]
    ELSE LET w == digits_value(x.whole)
             n == IF fraction_geq(x.frac, ROUNDS_UP_FROM[32 - bit_length(w)])
                  THEN w + 1 ELSE w
         IN  [ok |-> TRUE, n |-> IF x.negative THEN 0 - n ELSE n]

\* int(float(s)) for a text s: ok is FALSE when float() raises (ValueError)
\* or int() does (ValueError for "nan", OverflowError for "inf" and for a
\* number too large for a float).  float() rounds the number to the
\* nearest double and int() truncates that toward zero.
int_float_text(s) == int_of_decimal(float_text(s))

\* int(float(v)): ok is FALSE when the expression raises (ValueError for an
\* unparseable text or nan, OverflowError for inf).
int_of_float(v) ==
    CASE v.k = "float" -> [ok |-> TRUE,
                           n  |-> IF v.t >= 0 THEN v.t \div 10 ELSE 0 - ((0 - v.t) \div 10)]
      [] v.k = "int"   -> [ok |-> TRUE, n |-> v.n]
      [] v.k = "bool"  -> [ok |-> TRUE, n |-> IF v.b THEN 1 ELSE 0]
      [] v.k = "str"   -> int_float_text(v.s)
      [] OTHER         -> [ok |-> FALSE, n |-> 0]

\* parse_amount without the try/except: a failed conversion propagates.
parse_amount_uncaught(row, col) ==
    IF notna(row_get(row, col, None))
    THEN LET r == int_of_float(row[col])
         IN  [raised |-> ~r.ok, val |-> IF r.ok THEN Integer(r.n) ELSE None]
    ELSE [raised |-> FALSE, val |-> None]

\* if pd.notna(row.get(col)): try: x = int(float(row[col])) except: pass
\* raised tells whether an exception leaves the statement.
parse_amount(row, col) ==
    IF notna(row_get(row, col, None))
    THEN LET r == int_of_float(row[col])
         IN  [raised |-> FALSE, val |-> IF r.ok THEN Integer(r.n) ELSE None]
    ELSE [raised |-> FALSE, val |-> None]

\* Whether the interval cell marks the salary as hourly.
is_hourly(row) ==
    /\ notna(row_get(row, "interval", None))
    /\ contains(lower(py_str(row["interval"])), "hour")

\* annualize with the threshold included: 500 is multiplied too.
annualize_inclusive(salary) ==
    IF truthy(salary) /\ salary.n <= 500 THEN Integer(salary.n * 2080) ELSE salary

\* Convert hourly to annual estimate for comparison.
annualize(salary) ==
    IF truthy(salary) /\ salary.n < 500 THEN Integer(salary.n * 2080) ELSE salary

-----------------------------------------------------------------------------
(* process_jobs: one pass of the iterrows() loop per action *)

\* title_missing by truthiness: an empty title is dropped too.
title_missing_falsy(row) ==
    isna(row_get(row, "title", None)) \/ ~truthy(row_get(row, "title", None))

\* Skip if no title.
title_missing(row) == isna(row_get(row, "title", None))

\* The body of the loop for a row with a title: the salary coercion and the
\* job object.  raised tells whether an exception leaves the body.  The four
\* fields that only hold the date of the run (date_scraped, import_date,
\* import_week, week_added) are left out.
process_row(row) ==
    LET parsed_min  == parse_amount(row, "min_amount")
        parsed_max  == parse_amount(row, "max_amount")
        hourly      == is_hourly(row)
        salary_min  == IF hourly THEN annualize(parsed_min.val) ELSE parsed_min.val
        salary_max  == IF hourly THEN annualize(parsed_max.val) ELSE parsed_max.val
        description == IF notna(row_get(row, "description", None))
                       THEN py_str(row["description"]) ELSE ""
        location    == IF notna(row_get(row, "location", None))
                       THEN py_str(row["location"]) ELSE ""
        title       == py_str(row_get(row, "title", Str("")))
        company     == IF notna(row_get(row, "company", None))
                       THEN py_str(row["company"]) ELSE "Unknown"
        data_quality_score == calculate_data_quality(row)
        url         == row_get(row, "job_url", row_get(row, "job_url_direct", None))
    IN  [raised |-> parsed_min.raised \/ parsed_max.raised,
         job |->
           [job_id             |-> IF notna(row_get(row, "id", None))
                                   THEN SubSeq(py_str(row["id"]), 1, Min(12, Len(py_str(row["id"]))))
                                   ELSE "",
            title              |-> title,
            company            |-> company,
            location           |-> location,
            metro              |-> normalize_metro(Str(location)),
            remote_type        |-> determine_remote_type(row),
            is_remote          |-> determine_remote_type(row) = "remote",
            salary_min         |-> salary_min,
            salary_max         |-> salary_max,
            min_amount         |-> salary_min,
            max_amount         |-> salary_max,
            salary_type        |-> IF hourly THEN "hourly" ELSE "annual",
            experience_level   |-> determine_experience_level(Str(title), Str(description)),
            seniority          |-> classify_seniority(Str(title)),
            job_category       |-> categorize_job(Str(title)),
            skills_tags        |-> extract_skills(Str(description)),
            is_tech            |-> detect_tech_company(Str(company), Str(description)),
            company_stage      |-> detect_company_stage(Str(description)),
            data_quality_score |-> data_quality_score,
            data_quality       |-> get_data_quality_label(data_quality_score),
            has_description    |-> description # "" /\ Len(description) > 100,
            has_salary         |-> truthy(salary_min) \/ truthy(salary_max),
            red_flags          |-> extract_red_flags(Str(description)),
            buzzwords          |-> extract_buzzwords(Str(description)),
            date_posted        |-> IF notna(row_get(row, "date_posted", None))
                                   THEN Str(SubSeq(py_str(row["date_posted"]), 1,
                                                   Min(10, Len(py_str(row["date_posted"])))))
                                   ELSE None,
            source             |-> py_str(row_get(row, "site", Str("indeed"))),
            source_url         |-> IF notna(url) THEN py_str(url) ELSE "",
            job_url_direct     |-> IF notna(url) THEN py_str(url) ELSE "",
            description        |-> description,
            description_snippet |-> SubSeq(description, 1, Min(500, Len(description)))]]

-----------------------------------------------------------------------------
(* Python dicts, Counters and lists of numbers.  A dict is the sequence of  *)
(* its <<key, value>> items in insertion order, which is the order Python   *)
(* iterates and serialises it in.                                           *)

\* d.get(key, default) for a record: a dict whose keys are its fields.
get(d, key, default) == IF key \in DOMAIN d THEN d[key] ELSE default

\* key in d
has_key(d, key) == \E i \in DOMAIN d : d[i][1] = key

\* d.get(key, default)
dict_get(d, key, default) ==
    IF has_key(d, key) THEN d[CHOOSE i \in DOMAIN d : d[i][1] = key][2] ELSE default

\* list(d.keys())
dict_keys(d) == [i \in DOMAIN d |-> d[i][1]]

\* A Counter that records the keys it meets without counting repetitions.
Counter_of_distinct(items) ==
    LET firsts == SelectSeq([i \in DOMAIN items |-> i],
                            LAMBDA i : \A j \in 1..(i - 1) : items[j] # items[i])
    IN  [n \in DOMAIN firsts |-> <<items[firsts[n]], 1>>]

\* Counter(items), and a Counter incremented once per item in turn: a key is
\* inserted when it is first encountered and counts its occurrences.
Counter(items) ==
    LET firsts == SelectSeq([i \in DOMAIN items |-> i],
                            LAMBDA i : \A j \in 1..(i - 1) : items[j] # items[i])
    IN  [n \in DOMAIN firsts |->
            <<items[firsts[n]],
              Cardinality({ j \in DOMAIN items : items[j] = items[firsts[n]] })>>]

\* most_common() that puts the later-encountered of two items of equal count
\* first.
most_common_all_latest_first(counter) ==
    LET before(i) == { j \in DOMAIN counter :
                         \/ counter[j][2] > counter[i][2]
                         \/ counter[j][2] = counter[i][2] /\ j > i }
    IN  [p \in DOMAIN counter |->
            counter[CHOOSE i \in DOMAIN counter : Cardinality(before(i)) = p - 1]]

\* counter.most_common(): the items by descending count, items of equal
\* count in the order first encountered.
most_common_all(counter) ==
    LET before(i) == { j \in DOMAIN counter :
                         \/ counter[j][2] > counter[i][2]
                         \/ counter[j][2] = counter[i][2] /\ j < i }
    IN  [p \in DOMAIN counter |->
            counter[CHOOSE i \in DOMAIN counter : Cardinality(before(i)) = p - 1]]

\* counter.most_common(n): the first n of them.
most_common(counter, n) ==
    SubSeq(most_common_all(counter), 1, Min(n, Len(counter)))

\* list.sort() on numbers: ascending.
sort(numbers) ==
    LET before(i) == { j \in DOMAIN numbers :
                         \/ numbers[j] < numbers[i]
                         \/ numbers[j] = numbers[i] /\ j < i }
    IN  [p \in DOMAIN numbers |->
            numbers[CHOOSE i \in DOMAIN numbers : Cardinality(before(i)) = p - 1]]

\* sum(numbers[lo..hi])
RECURSIVE sum_range(_, _, _)
sum_range(numbers, lo, hi) ==
    IF lo > hi THEN 0
    ELSE IF lo = hi THEN numbers[lo]
    ELSE LET mid == (lo + hi) \div 2
         IN  sum_range(numbers, lo, mid) + sum_range(numbers, mid + 1, hi)

sum(numbers) == sum_range(numbers, 1, Len(numbers))

\* The concatenation of the lists lists[lo..hi]: list.extend once per list.
RECURSIVE extend_range(_, _, _)
extend_range(lists, lo, hi) ==
    IF lo > hi THEN <<>>
    ELSE IF lo = hi THEN lists[lo]
    ELSE LET mid == (lo + hi) \div 2
         IN  extend_range(lists, lo, mid) \o extend_range(lists, mid + 1, hi)

\* The lists joined with an item kept only where it is first met.
extend_all_unique(lists) ==
    LET items == extend_range(lists, 1, Len(lists))
        firsts == SelectSeq([i \in DOMAIN items |-> i],
                            LAMBDA i : \A j \in 1..(i - 1) : items[j] # items[i])
    IN  [n \in DOMAIN firsts |-> items[firsts[n]]]

extend_all(lists) == extend_range(lists, 1, Len(lists))

\* The items list.extend(x) appends: the elements of a list, the characters
\* of a text.
iter(x) ==
    IF type(x) = "list" THEN x
    ELSE LET text == IF type(x) = "str" /\ Head(ToString(x)) = "[" THEN x.s ELSE x
         IN  [i \in 1..Len(text) |-> CharAt(text, i)]

\* The keys whose values generate_market_intelligence extends a list by.
EXTENDED_KEYS == {"skills_tags", "buzzwords", "red_flags"}

\* list.extend(x) raises TypeError for a value that is not iterable: here
\* None, a number or a flag under one of the keys of some record.
not_iterable(jobs_list) ==
    \E i \in DOMAIN jobs_list : \E key \in EXTENDED_KEYS :
        type(get(jobs_list[i], key, <<>>)) \notin {"list", "str"}

\* A positive double is [bits, e]: the binary digits of its significand,
\* most significant first and at most 53 of them, and the exponent of the
\* last digit, the value being the digits read as an integer times 2^e.
SIGNIFICAND == 53

\* bits without its leading zeros.
without_leading_zero_bits(bits) ==
    LET ones == { i \in 1..Len(bits) : bits[i] = 1 }
    IN  IF ones = {} THEN <<>>
        ELSE SubSeq(bits, CHOOSE i \in ones : \A j \in ones : i <= j, Len(bits))

\* The integer the binary digits stand for, below 2^31.
RECURSIVE bits_value(_)
bits_value(bits) ==
    IF Len(bits) = 0 THEN 0
    ELSE IF Len(bits) = 1 THEN bits[1]
    ELSE LET h == Len(bits) \div 2
         IN  bits_value(SubSeq(bits, 1, h)) * (2 ^ (Len(bits) - h))
                 + bits_value(SubSeq(bits, h + 1, Len(bits)))

\* The n binary digits of v < 2^n.
value_bits(v, n) == [i \in 1..n |-> (v \div (2 ^ (n - i))) % 2]

\* x + y for binary digits x and y of up to 79 digits: in four limbs of
\* LIMB digits, the carry going from each limb to the next.
LIMB == 20

add_bits(x, y) ==
    LET \* the i-th limb of z, the first being the least significant
        limb(z, i) ==
            LET last  == Len(z) - LIMB * (i - 1)
                first == IF last - LIMB + 1 < 1 THEN 1 ELSE last - LIMB + 1
            IN  IF last < 1 THEN 0 ELSE bits_value(SubSeq(z, first, last))
        s1 == limb(x, 1) + limb(y, 1)
        s2 == limb(x, 2) + limb(y, 2) + s1 \div (2 ^ LIMB)
        s3 == limb(x, 3) + limb(y, 3) + s2 \div (2 ^ LIMB)
        s4 == limb(x, 4) + limb(y, 4) + s3 \div (2 ^ LIMB)
    IN  without_leading_zero_bits(
            value_bits(s4, LIMB) \o value_bits(s3 % (2 ^ LIMB), LIMB)
                \o value_bits(s2 % (2 ^ LIMB), LIMB) \o value_bits(s1 % (2 ^ LIMB), LIMB))

\* x * 2^k for binary digits x.
shift_bits(x, k) == x \o [i \in 1..k |-> 0]

\* The double nearest to bits * 2^e, plus something below the last digit
\* when inexact is true: round to nearest, a tie to the even significand.
round_to_double(bits, e, inexact) ==
    IF Len(bits) <= SIGNIFICAND THEN [bits |-> bits, e |-> e]
    ELSE LET keep == SubSeq(bits, 1, SIGNIFICAND)
             rest == SubSeq(bits, SIGNIFICAND + 1, Len(bits))
             more == inexact \/ \E i \in 2..Len(rest) : rest[i] = 1
             up   == rest[1] = 1 /\ (more \/ keep[SIGNIFICAND] = 1)
             next == IF up THEN add_bits(keep, <<1>>) ELSE keep
         IN  IF Len(next) > SIGNIFICAND
             THEN [bits |-> SubSeq(next, 1, SIGNIFICAND), e |-> e + Len(rest) + 1]
             ELSE [bits |-> next, e |-> e + Len(rest)]

\* n digits in base 2^s of r / total, for r < total, and the remainder left.
RECURSIVE long_division(_, _, _, _)
long_division(r, total, s, n) ==
    IF n = 0 THEN [digits |-> <<>>, rem |-> r]
    ELSE LET rest == long_division((r * (2 ^ s)) % total, total, s, n - 1)
         IN  [digits |-> <<(r * (2 ^ s)) \div total>> \o rest.digits, rem |-> rest.rem]

\* count / total for 0 < count <= total < 2^28: the quotient to more digits
\* than a significand holds, by long division, then rounded.
float_div(count, total) ==
    LET \* the least k with count * 2^k >= total
        d == bit_length(total) - bit_length(count)
        k == IF count * (2 ^ d) >= total THEN d ELSE d + 1
        \* s binary digits at a time, n times, after the leading 1
        s == 30 - bit_length(total)
        n == (SIGNIFICAND + s - 1) \div s
        q == long_division(count * (2 ^ k) - total, total, s, n)
        bits == <<1>> \o [i \in 1..(n * s) |->
                             value_bits(q.digits[(i - 1) \div s + 1], s)[((i - 1) % s) + 1]]
    IN  round_to_double(bits, 0 - k - n * s, q.rem # 0)

\* x * 100 for a double x: the exact product 64x + 32x + 4x, rounded.
float_times_100(x) ==
    round_to_double(add_bits(shift_bits(x.bits, 6),
                             add_bits(shift_bits(x.bits, 5), shift_bits(x.bits, 2))),
                    x.e, FALSE)

\* round(x, 1) in tenths for a double 0 < x < 2^20: the integer nearest to
\* the exact 10x = 8x + 2x, a tie to the even one.
round_tenths(x) ==
    LET ten   == add_bits(shift_bits(x.bits, 3), shift_bits(x.bits, 1))
        f     == 0 - x.e
        whole == IF f <= 0 THEN bits_value(shift_bits(ten, 0 - f))
                 ELSE IF Len(ten) > f THEN bits_value(SubSeq(ten, 1, Len(ten) - f))
                 ELSE 0
        \* the digit of weight 2^-i of 10x
        fd(i) == IF i > f \/ Len(ten) - f + i < 1 THEN 0 ELSE ten[Len(ten) - f + i]
        more  == \E i \in 2..f : fd(i) = 1
        up    == fd(1) = 1 /\ (more \/ whole % 2 = 1)
    IN  IF up THEN whole + 1 ELSE whole

\* round(count / total * 100, 1) in tenths, for 0 <= count <= total and
\* total > 0, in double arithmetic: the division and the multiplication each
\* round to the nearest double, and round() gives the tenth nearest to the
\* product, so 23 of 80 is 28.7 (28.749999999999996) and 49 of 80 is 61.3.
round_percentage(count, total) ==
    IF count = 0 THEN 0
    ELSE round_tenths(float_times_100(float_div(count, total)))

-----------------------------------------------------------------------------
(* generate_market_intelligence *)

\* The records collected whenever salary_max is not None.
collected_not_none(jobs_list) ==
    SelectSeq(jobs_list, LAMBDA job : get(job, "salary_max", None) # None)

\* The records whose salary_max the loop collects, in record order: a
\* record contributes when its salary_max is truthy.
collected(jobs_list) ==
    SelectSeq(jobs_list, LAMBDA job : truthy(get(job, "salary_max", None)))

\* salary_stats reporting zeroes when no salary was collected.
salary_summary_zeroes(salaries) ==
    LET sorted_salaries == sort(salaries)
        n == Len(sorted_salaries)
    IN  << <<"min", IF n = 0 THEN 0 ELSE sorted_salaries[1]>>,
           <<"max", IF n = 0 THEN 0 ELSE sorted_salaries[n]>>,
           <<"median", IF n = 0 THEN 0 ELSE sorted_salaries[n \div 2 + 1]>>,
           <<"avg", IF n = 0 THEN 0 ELSE sum(sorted_salaries) \div n>>,
           <<"count_with_salary", n>> >>

\* salary_stats with the lower of the two middle elements as the median.
salary_summary_lower_median(salaries) ==
    IF salaries = <<>> THEN <<>>
    ELSE LET sorted_salaries == sort(salaries)
         IN  << <<"min", sorted_salaries[1]>>,
                <<"max", sorted_salaries[Len(sorted_salaries)]>>,
                <<"median", sorted_salaries[(Len(sorted_salaries) - 1) \div 2 + 1]>>,
                <<"avg", sum(sorted_salaries) \div Len(sorted_salaries)>>,
                <<"count_with_salary", Len(sorted_salaries)>> >>

\* salary_stats: empty when no salary was collected, else the summary of the
\* sorted salaries.
salary_summary(salaries) ==
    IF salaries = <<>> THEN <<>>
    ELSE LET sorted_salaries == sort(salaries)
         IN  << <<"min", sorted_salaries[1]>>,
                <<"max", sorted_salaries[Len(sorted_salaries)]>>,
                <<"median", sorted_salaries[Len(sorted_salaries) \div 2 + 1]>>,
                <<"avg", sum(sorted_salaries) \div Len(sorted_salaries)>>,
                <<"count_with_salary", Len(sorted_salaries)>> >>

\* The entry for one group with the total of the salaries as its avg.
group_summary_total(sals) ==
    LET sorted_sals == sort(sals)
    IN  << <<"median", sorted_sals[Len(sorted_sals) \div 2 + 1]>>,
           <<"avg", sum(sorted_sals)>>,
           <<"count", Len(sorted_sals)>> >>

\* The entry of salary_by_category and salary_by_seniority for one group.
group_summary(sals) ==
    LET sorted_sals == sort(sals)
    IN  << <<"median", sorted_sals[Len(sorted_sals) \div 2 + 1]>>,
           <<"avg", sum(sorted_sals) \div Len(sorted_sals)>>,
           <<"count", Len(sorted_sals)>> >>

\* salary_by_category / salary_by_seniority with a group for every value of
\* the field, a group without a salary reported with zeroes.
salary_by_every_group(jobs_list, field, default) ==
    LET contributing == collected(jobs_list)
        groups == dict_keys(Counter([i \in DOMAIN jobs_list |->
                                        get(jobs_list[i], field, default)]))
    IN  [g \in DOMAIN groups |->
            <<groups[g],
              LET members == SelectSeq(contributing,
                                       LAMBDA job : get(job, field, default) = groups[g])
              IN  IF members = <<>>
                  THEN << <<"median", 0>>, <<"avg", 0>>, <<"count", 0>> >>
                  ELSE group_summary([i \in DOMAIN members |-> members[i].salary_max.n])>>]

\* salaries_by_category / salaries_by_seniority reduced to their summaries:
\* one group per value of the field among the contributing records, in the
\* order the values are first met; default stands for the field of a record
\* that does not have it.
salary_by(jobs_list, field, default) ==
    LET contributing == collected(jobs_list)
        groups == dict_keys(Counter([i \in DOMAIN contributing |->
                                        get(contributing[i], field, default)]))
    IN  [g \in DOMAIN groups |->
            <<groups[g],
              group_summary(
                  LET members == SelectSeq(contributing,
                                           LAMBDA job : get(job, field, default) = groups[g])
                  IN  [i \in DOMAIN members |-> members[i].salary_max.n])>>]

\* skills_by_category recording each skill once instead of its count.
group_skills_counted_once(skill_counts) ==
    LET category(skill) == dict_get(SKILL_CATEGORIES, skill, "Other")
        categories == dict_keys(Counter([i \in DOMAIN skill_counts |->
                                            category(skill_counts[i][1])]))
    IN  [c \in DOMAIN categories |->
            <<categories[c],
              LET members == SelectSeq(skill_counts,
                                       LAMBDA item : category(item[1]) = categories[c])
              IN  [i \in DOMAIN members |-> <<members[i][1], 1>>]>>]

\* skills_by_category: the counted skills grouped by SKILL_CATEGORIES.
group_skills(skill_counts) ==
    LET category(skill) == dict_get(SKILL_CATEGORIES, skill, "Other")
        categories == dict_keys(Counter([i \in DOMAIN skill_counts |->
                                            category(skill_counts[i][1])]))
    IN  [c \in DOMAIN categories |->
            <<categories[c],
              SelectSeq(skill_counts, LAMBDA item : category(item[1]) = categories[c])>>]

\* Generate market intelligence data from jobs.  A record is read with
\* job.get and the default of each key.  The date of the run is left out.
generate_market_intelligence(jobs_list) ==
    LET field(name, default) == [i \in DOMAIN jobs_list |-> get(jobs_list[i], name, default)]
        items(name)   == [i \in DOMAIN jobs_list |-> iter(get(jobs_list[i], name, <<>>))]
        all_skills    == extend_all(items("skills_tags"))
        all_buzzwords == extend_all(items("buzzwords"))
        all_red_flags == extend_all(items("red_flags"))
        with_metro    == SelectSeq(jobs_list, LAMBDA job : truthy(get(job, "metro", None)))
        metro_count   == Counter([i \in DOMAIN with_metro |-> with_metro[i].metro.s])
        tech_count    == Cardinality({ i \in DOMAIN jobs_list :
                                         get(jobs_list[i], "is_tech", FALSE) })
        contributing  == collected(jobs_list)
        salaries      == [i \in DOMAIN contributing |-> contributing[i].salary_max.n]
        skill_counts  == Counter(all_skills)
    IN  [total_jobs             |-> Len(jobs_list),
         skills                 |-> most_common(skill_counts, 50),
         skills_by_category     |-> group_skills(skill_counts),
         categories             |-> most_common_all(Counter(field("job_category", "Other"))),
         experience_levels      |-> Counter(field("experience_level", "mid")),
         seniority_breakdown    |-> Counter(field("seniority", "Mid")),
         remote_breakdown       |-> Counter(field("remote_type", "onsite")),
         top_metros             |-> most_common(metro_count, 10),
         company_stages         |-> most_common_all(Counter(field("company_stage", "Unknown"))),
         tech_companies         |-> tech_count,
         tech_percentage        |-> IF jobs_list # <<>>
                                    THEN Float(round_percentage(tech_count, Len(jobs_list)))
                                    ELSE Integer(0),
         data_quality_breakdown |-> Counter(field("data_quality", "Basic")),
         salary_stats           |-> salary_summary(salaries),
         salary_by_category     |-> salary_by(jobs_list, "job_category", "Other"),
         salary_by_seniority    |-> salary_by(jobs_list, "seniority", "Mid"),
         buzzwords              |-> most_common(Counter(all_buzzwords), 20),
         red_flags              |-> most_common_all(Counter(all_red_flags))]

-----------------------------------------------------------------------------
(* main: deduplication, console report and the saved files *)

\* col in df.columns, the columns being the header of the file read.
has_column(header, col) == col \in header

\* df.drop_duplicates(subset=[col], keep='first'): a row is dropped when an
\* earlier row has the same cell; missing values are equal to each other.
\* A frame without rows is returned as it is, whatever col.
drop_duplicates(rows, col) ==
    LET kept == SelectSeq([i \in DOMAIN rows |-> i],
                          LAMBDA i : \A j \in 1..(i - 1) : rows[j][col] # rows[i][col])
    IN  [n \in DOMAIN kept |-> rows[kept[n]]]

\* The breakdowns main prints index the records by job_category,
\* seniority, remote_type and data_quality: a record without one of these
\* keys raises KeyError.
REPORT_KEYS == {"job_category", "seniority", "remote_type", "data_quality"}

report_key_missing(jobs_list) ==
    \E i \in DOMAIN jobs_list : ~(REPORT_KEYS \subseteq DOMAIN jobs_list[i])

\* What main prints for the tech companies: the percentage in tenths.  The
\* division is by len(jobs) without a guard.
tech_report(jobs_list) ==
    LET tech_count == Cardinality({ i \in DOMAIN jobs_list :
                                      get(jobs_list[i], "is_tech", FALSE) })
    IN  IF Len(jobs_list) = 0 THEN [raised |-> TRUE, pct |-> 0]
        ELSE [raised |-> FALSE, pct |-> round_percentage(tech_count, Len(jobs_list))]

\* ','.join(list).
RECURSIVE join(_)
join(list) ==
    IF Len(list) = 0 THEN ""
    ELSE IF Len(list) = 1 THEN list[1]
    ELSE LET h == Len(list) \div 2
         IN  join(SubSeq(list, 1, h)) \o "," \o join(SubSeq(list, h + 1, Len(list)))

\* Convert list fields to strings for CSV.
LIST_COLUMNS == {"skills_tags", "red_flags", "buzzwords"}

\* The types of a column that pd.DataFrame holds as floats: numbers and
\* missing values only, with a float or a missing value among them.  A
\* column of ints stays one of ints, a column of None one of None.
is_float_column(types) ==
    /\ types \subseteq {"int", "float", "inf", "nan", "none"}
    /\ types \notin {{"int"}, {"none"}}

\* A value of a float column: an int as the float equal to it, None as NaN.
as_float(x) ==
    IF type(x) = "int" THEN Float(10 * (IF Head(ToString(x)) = "[" THEN x.n ELSE x))
    ELSE IF type(x) = "none" THEN NaN
    ELSE x

\* pd.DataFrame(jobs) with its list columns joined: the frame has the keys
\* of all the records as columns, a record without a key has NaN in that
\* column, and a cell that is not a list is left as it is.  The order of
\* the columns is left out.
csv_frame(jobs_list) ==
    LET columns  == UNION { DOMAIN jobs_list[i] : i \in DOMAIN jobs_list }
        value(i, c) == get(jobs_list[i], c, NaN)
        floats   == { c \in columns :
                        is_float_column({ type(value(i, c)) : i \in DOMAIN jobs_list }) }
        cell(i, c) == IF c \in floats THEN as_float(value(i, c)) ELSE value(i, c)
    IN  [i \in DOMAIN jobs_list |->
            [c \in columns |->
                IF c \in LIST_COLUMNS /\ type(cell(i, c)) = "list" THEN join(cell(i, c))
                ELSE cell(i, c)]]

\* jobs.json, the frame written to the enriched CSV and
\* market_intelligence.json as main writes them, the dates of the run left
\* out.
saved_files(jobs_list, intelligence) ==
    [jobs_json |-> [total_jobs |-> Len(jobs_list), jobs |-> jobs_list],
     csv |-> csv_frame(jobs_list),
     market_intelligence_json |-> intelligence]

NoFiles == [jobs_json |-> None, csv |-> None, market_intelligence_json |-> None]
\* main without a raw file but with an enriched CSV: nothing to do.
SkipEnrichment ==
    /\ caller = "main"
    /\ pc = "start"
    /\ ~data.raw_files
    /\ data.existing_csv
    /\ pc' = "returned"
    /\ UNCHANGED <<caller, data, raw, df, idx, jobs, intel, files>>

\* main without a raw file or an enriched CSV, with a jobs.json: the records
\* are the ones of the file and process_jobs is not called.
LoadJobs ==
    /\ caller = "main"
    /\ pc = "start"
    /\ ~data.raw_files
    /\ ~data.existing_csv
    /\ data.jobs_json # None
    /\ jobs' = get(data.jobs_json, "jobs", <<>>)
    /\ pc' = "done"
    /\ UNCHANGED <<caller, data, raw, df, idx, intel, files>>

\* main without a raw file, an enriched CSV or a jobs.json: exit(1).
Exit ==
    /\ caller = "main"
    /\ pc = "start"
    /\ ~data.raw_files
    /\ ~data.existing_csv
    /\ data.jobs_json = None
    /\ pc' = "exit"
    /\ UNCHANGED <<caller, data, raw, df, idx, jobs, intel, files>>

\* main with raw files: the most recent one is read.  pd.read_csv raises
\* EmptyDataError on a file without a header line.
ReadRaw ==
    /\ caller = "main"
    /\ pc = "start"
    /\ data.raw_files
    /\ IF data.header = {}
       THEN pc' = "EmptyDataError" /\ UNCHANGED df
       ELSE df' = raw /\ pc' = "load"
    /\ UNCHANGED <<caller, data, raw, idx, jobs, intel, files>>

\* main: df.drop_duplicates on the URL column, job_url when the frame has it.
\* drop_duplicates returns a frame without rows before it looks for the
\* column, and raises KeyError for a column that a frame with rows lacks.
Deduplicate ==
    /\ pc = "load"
    /\ LET url_col == IF has_column(data.header, "job_url") THEN "job_url" ELSE "job_url_direct"
       IN  IF df = <<>> \/ has_column(data.header, url_col)
           THEN df' = drop_duplicates(df, url_col) /\ pc' = "loop"
           ELSE pc' = "KeyError" /\ UNCHANGED df
    /\ UNCHANGED <<caller, data, raw, idx, jobs, intel, files>>

\* A row without a title is dropped: continue.
SkipRow ==
    /\ pc = "loop"
    /\ idx <= Len(df)
    /\ title_missing(df[idx])
    /\ idx' = idx + 1
    /\ UNCHANGED <<caller, data, raw, df, jobs, intel, files, pc>>

\* A row with a title is enriched and appended, unless its body raises.
ProcessRow ==
    /\ pc = "loop"
    /\ idx <= Len(df)
    /\ ~title_missing(df[idx])
    /\ LET r == process_row(df[idx])
       IN  IF r.raised
           THEN pc' = "raised" /\ UNCHANGED <<idx, jobs>>
           ELSE jobs' = Append(jobs, r.job) /\ idx' = idx + 1 /\ pc' = pc
    /\ UNCHANGED <<caller, data, raw, df, intel, files>>

\* The loop is exhausted: return jobs.
Return ==
    /\ pc = "loop"
    /\ idx > Len(df)
    /\ pc' = "done"
    /\ UNCHANGED <<caller, data, raw, df, idx, jobs, intel, files>>

\* main: the breakdowns printed after processing.  They index every record
\* by four of its keys, and the tech percentage divides by len(jobs).
Report ==
    /\ caller = "main"
    /\ pc = "done"
    /\ pc' = IF report_key_missing(jobs) THEN "KeyError"
             ELSE IF tech_report(jobs).raised THEN "ZeroDivisionError"
             ELSE "reported"
    /\ UNCHANGED <<caller, data, raw, df, idx, jobs, intel, files>>

\* generate_market_intelligence(jobs): by main after its report, by another
\* caller on the list process_jobs returned.
GenerateIntel ==
    /\ pc = IF caller = "main" THEN "reported" ELSE "done"
    /\ IF not_iterable(jobs)
       THEN pc' = "TypeError" /\ UNCHANGED intel
       ELSE intel' = generate_market_intelligence(jobs) /\ pc' = "intel"
    /\ UNCHANGED <<caller, data, raw, df, idx, jobs, files>>

\* main: jobs.json, the enriched CSV and market_intelligence.json are written.
Save ==
    /\ caller = "main"
    /\ pc = "intel"
    /\ files' = saved_files(jobs, intel)
    /\ pc' = "saved"
    /\ UNCHANGED <<caller, data, raw, df, idx, jobs, intel>>

Next ==
    \/ SkipEnrichment \/ LoadJobs \/ Exit \/ ReadRaw \/ Deduplicate
    \/ SkipRow \/ ProcessRow \/ Return
    \/ Report \/ GenerateIntel \/ Save

-----------------------------------------------------------------------------
(* Raw frames *)

Columns == {"title", "company", "location", "description",
            "min_amount", "max_amount", "interval", "date_posted", "site",
            "job_url", "job_url_direct", "is_remote", "id"}

\* A row whose cells are all missing values.
EmptyRow == [c \in Columns |-> NaN]

\* The row r with the cells of the record fields replaced.
With(r, fields) == [c \in Columns |-> IF c \in DOMAIN fields THEN fields[c] ELSE r[c]]

\* The frame without the columns cols.
DropColumns(rows, cols) ==
    [i \in DOMAIN rows |-> [c \in Columns |-> IF c \in cols THEN Absent ELSE rows[i][c]]]

\* All sequences over S of length at most n.
SeqsUpTo(S, n) == UNION { [1..m -> S] : m \in 0..n }

\* All concatenations of at most n fragments.
RECURSIVE Texts(_, _)
Texts(frags, n) ==
    IF n = 0 THEN {""}
    ELSE LET shorter == Texts(frags, n - 1)
         IN  shorter \cup { t \o f : t \in shorter, f \in frags }

\* A text of n characters.
RECURSIVE Pad(_)
Pad(n) ==
    IF n = 0 THEN ""
    ELSE IF n = 1 THEN "x"
    ELSE Pad(n \div 2) \o Pad(n - n \div 2)

\* Records of a jobs.json: two that an earlier run built and saved, one with
\* the keys of the console report and a salary only, one without them.
SavedRows ==
    << With(EmptyRow, [title |-> Str("Senior ML Engineer"), company |-> Str("Initech Labs"),
                       location |-> Str("San Jose, CA"),
                       description |-> Str("We use PyTorch on a fast-paced team"),
                       max_amount |-> Float(1200000)]),
       With(EmptyRow, [title |-> Str("Chef"), location |-> Str("Remote")]) >>

SavedJobs == [i \in DOMAIN SavedRows |-> process_row(SavedRows[i]).job]

PartialJob ==
    [title |-> "Prompt Engineer", job_category |-> "Prompt Engineer", seniority |-> "Mid",
     remote_type |-> "remote", data_quality |-> "Basic", salary_max |-> Integer(150000)]

BareJob == [title |-> "Chef", company |-> "Acme"]

\* Records whose skills_tags is a text and whose red_flags is null.
TextSkillsJob ==
    [title |-> "Data Analyst", job_category |-> "Data Analyst", seniority |-> "Mid",
     remote_type |-> "onsite", data_quality |-> "Basic", skills_tags |-> "sql"]

NullFlagsJob ==
    [title |-> "Data Analyst", job_category |-> "Data Analyst", seniority |-> "Mid",
     remote_type |-> "onsite", data_quality |-> "Basic", red_flags |-> None]

\* Contents of jobs.json: without the jobs key, without records, and with
\* the records above.
JobsFiles ==
    { [total_jobs |-> 0],
      [total_jobs |-> 0, jobs |-> <<>>],
      [total_jobs |-> 2, jobs |-> SavedJobs],
      [total_jobs |-> 1, jobs |-> <<PartialJob>>],
      [total_jobs |-> 3, jobs |-> SavedJobs \o <<PartialJob>>],
      [total_jobs |-> 2, jobs |-> <<SavedJobs[1], BareJob>>],
      [total_jobs |-> 2, jobs |-> <<PartialJob, TextSkillsJob>>],
      [total_jobs |-> 1, jobs |-> <<NullFlagsJob>>] }

\* The header lines of a raw file holding the frame rows: the columns of
\* the rows, which every row has or lacks alike; for a file without rows a
\* full header, one without job_url, one without either URL column, and no
\* header line at all.
Headers(rows) ==
    IF rows = <<>>
    THEN {Columns, Columns \ {"job_url"}, Columns \ {"job_url", "job_url_direct"}, {}}
    ELSE {{ c \in Columns : rows[1][c] # Absent }}

\* A data directory whose latest raw file has the header given, and no
\* directory for a caller other than main.
RawDir(header) ==
    [raw_files |-> TRUE, existing_csv |-> FALSE, jobs_json |-> None, header |-> header]
NoDir == [raw_files |-> FALSE, existing_csv |-> FALSE, jobs_json |-> None, header |-> {}]

\* Data directories without a raw file.
NoRawDirs ==
    { [raw_files |-> FALSE, existing_csv |-> c, jobs_json |-> j, header |-> {}] :
        c \in BOOLEAN, j \in JobsFiles \cup {None} }

\* The state when main starts on a directory with one of the frames as its
\* latest raw file, or before another caller hands the frame to process_jobs.
InitRaw(callers, frames) ==
    /\ caller \in callers
    /\ raw \in frames
    /\ data \in IF caller = "main" THEN { RawDir(h) : h \in Headers(raw) } ELSE {NoDir}
    /\ df = IF caller = "main" THEN <<>> ELSE raw
    /\ idx = 1
    /\ jobs = <<>>
    /\ intel = None
    /\ files = NoFiles
    /\ pc = IF caller = "main" THEN "start" ELSE "loop"

\* The state when main starts on a directory without a raw file.
InitNoRaw ==
    /\ caller = "main"
    /\ data \in NoRawDirs
    /\ raw = <<>>
    /\ df = <<>>
    /\ idx = 1
    /\ jobs = <<>>
    /\ intel = None
    /\ files = NoFiles
    /\ pc = "start"

InitRun(callers, frames) == InitRaw(callers, frames) \/ InitNoRaw

\* Frames under both callers.
InitFrame(frames) == InitRun({"main", "direct"}, frames)

\* Frames of one row each under main: the deduplication leaves such a frame
\* as it is, so process_jobs is handed the same frame by either caller.
InitOneRow(rows) == InitRun({"main"}, { <<r>> : r \in rows })

\* Rows of the multi-row frames: with, without and with an empty title, the
\* other cells holding well-formed, malformed and missing values.
BaseRows ==
    { With(EmptyRow, [title |-> Str("Data Engineer, AI"), location |-> Str("San Jose, CA"),
                      min_amount |-> Float(450), interval |-> Str("hourly")]),
      With(EmptyRow, [title |-> Str("Chef"), company |-> Str("Acme"),
                      min_amount |-> Str("competitive"), max_amount |-> Inf,
                      is_remote |-> Bool(TRUE)]),
      With(EmptyRow, [title |-> Str(""), description |-> Str("We use PyTorch"),
                      is_remote |-> Bool(FALSE)]),
      With(EmptyRow, [title |-> Str("Senior ML Engineer"),
                      job_url_direct |-> Str("https://jobs.example/2")]),
      EmptyRow,
      With(EmptyRow, [company |-> Str("Acme"), location |-> Str("Remote"),
                      max_amount |-> Float(1200000), interval |-> Str("yearly")]) }

\* Frames of up to n rows; a frame may lack the is_remote or the title column.
Frames(n) ==
    { DropColumns(rows, cols) : rows \in SeqsUpTo(BaseRows, n),
                                cols \in {{}, {"is_remote"}, {"title"}} }

Init == InitFrame(Frames(MaxRows))

Spec == Init /\ [][Next]_vars

\* Titles: fragments that hit several category rules and seniority groups at
\* once, in both orders, and fragments that hit none.
TitleFrags ==
    {"Data Engineer", ", AI", "Senior ", "Machine Learning Engineer",
     "Head of ML", "VP", "Jr. ", "Chef", " II", "Chief "}

TitleRows(n) ==
    { With(EmptyRow, [title |-> Str(t)]) : t \in Texts(TitleFrags, n) }
        \cup {EmptyRow}

InitTitles == InitOneRow(TitleRows(MaxFrags))

SpecTitles == InitTitles /\ [][Next]_vars

\* Descriptions: several variants of one skill, one variant inside another,
\* canonical names in lower case, and text without any skill.
DescriptionFrags ==
    {"We use PyTorch, LangChain and AWS SageMaker", " GPT-4, gpt4 or GPT-3.",
     "llama index", " Go ", "golang;", "scikit-learn with pgvector",
     "Senior chef wanted"}

DescriptionRows(n) ==
    { With(EmptyRow, [title |-> Str("Chef"), description |-> d]) :
        d \in { Str(t) : t \in Texts(DescriptionFrags, n) } \cup {NaN, Absent} }
        \cup {EmptyRow}

InitDescriptions == InitOneRow(DescriptionRows(MaxFrags))

SpecDescriptions == InitDescriptions /\ [][Next]_vars

\* Locations and remote flags: aliases of several metros, one alias inside
\* another word, both remote words, and every state of the is_remote cell.
LocationFrags ==
    {"San Jose, CA", "Nowhereville", "Remote", "Hybrid", "Atlanta", " - ",
     "NYC", "Austin, TX"}

LocationRows(n) ==
    { With(EmptyRow, [title |-> Str("Chef"), location |-> l, is_remote |-> f]) :
        l \in { Str(t) : t \in Texts(LocationFrags, n) } \cup {NaN, Absent},
        f \in {Bool(TRUE), Bool(FALSE), NaN, Absent} }
        \cup {EmptyRow}

InitLocations == InitOneRow(LocationRows(MaxFrags))

SpecLocations == InitLocations /\ [][Next]_vars

\* Salary cells: floats around the 500 threshold, texts built from digits,
\* point, sign and a currency mark, texts float() reads beyond plain
\* decimals (white space, an exponent, an underscore, a fraction that rounds
\* up to the next integer), integers and Booleans, infinity and missing
\* values.
AmountFrags == {"4", "5", "0", ".", "-", "$"}

Amounts(n) ==
    { Float(t) : t \in {-50, 0, 450, 455, 4990, 4999, 5000, 6000, 1000000} }
        \cup { Str(t) : t \in Texts(AmountFrags, n) }
        \cup { Str(t) : t \in {"  45", "45", "1e3", "4.5e1", "1_000",
                               "44.99999999999999999", "499.99999999999999999",
                               "-0.99999999999999999", "4__5", "1e400"} }
        \cup { Integer(45), Bool(TRUE), Bool(FALSE) }
        \cup { Str("competitive"), Inf, NaN, Absent }

OtherAmounts == { NaN, Float(1200), Float(6000), Str("n/a") }

Intervals == { Str("hourly"), Str("Hourly"), Str("hour"), Str("yearly"), Str(""), NaN, Absent }

SalaryRows(n) ==
    { With(EmptyRow, [title |-> Str("Chef"), min_amount |-> a, max_amount |-> b, interval |-> i]) :
        a \in Amounts(n), b \in OtherAmounts, i \in Intervals }
        \cup
    { With(EmptyRow, [title |-> Str("Chef"), min_amount |-> b, max_amount |-> a, interval |-> i]) :
        a \in Amounts(n), b \in OtherAmounts, i \in Intervals }
        \cup {EmptyRow}

InitSalaries == InitOneRow(SalaryRows(MaxFrags))

SpecSalaries == InitSalaries /\ [][Next]_vars

\* Completeness: descriptions around the 100 character threshold, present
\* and missing salary cells, real and placeholder locations and companies.
QualityRows ==
    { With(EmptyRow, [title |-> Str("Chef"), description |-> d, min_amount |-> a,
                      max_amount |-> b, location |-> l, company |-> c]) :
        d \in { Str(Pad(n)) : n \in {0, 100, 101, 150} } \cup {NaN, Absent},
        a \in { NaN, Absent, Float(450), Str("competitive") },
        b \in { NaN, Float(1000000) },
        l \in { Str(t) : t \in {"", "nan", "None", "Austin"} } \cup {NaN},
        c \in { Str(t) : t \in {"", "nan", "None", "Unknown", "Acme"} } \cup {NaN, Absent} }
        \cup {EmptyRow}

InitQuality == InitOneRow(QualityRows)

SpecQuality == InitQuality /\ [][Next]_vars


\* Companies and descriptions: an empty, a missing and a plain company, a
\* company that holds a tech keyword, a keyword that only appears across the
\* join of company and description; descriptions with several phrases of one
\* red-flag category, phrases of several categories, buzzwords out of table
\* order, a phrase that is both a red flag and a buzzword, and none.
SignalFrags ==
    {"Fast-paced, dynamic team; startup mentality.",
     " Competitive salary, 10+ years, PhD required.",
     " Our Cutting-Edge cloud platform is scalable",
     "learning by doing",
     " We bake bread.",
     " Other duties as assigned"}

Companies == { Str(""), Str("Acme"), Str("Initech Labs"), Str("Machine"), NaN, Absent }

SignalRows(n) ==
    { With(EmptyRow, [title |-> Str("Chef"), company |-> c, description |-> d]) :
        c \in Companies,
        d \in { Str(t) : t \in Texts(SignalFrags, n) } \cup {NaN} }
        \cup {EmptyRow}

InitSignals == InitOneRow(SignalRows(MaxFrags))

SpecSignals == InitSignals /\ [][Next]_vars

\* Records to aggregate: salaries that are positive, zero, negative and
\* missing, in several categories and seniority levels, with and without a
\* metro, a tech company and a skill; a row without a title; rows that share
\* a URL and rows without one.
IntelRows ==
    { With(EmptyRow, [title |-> Str("Senior ML Engineer"), location |-> Str("San Jose, CA"),
                      description |-> Str("We use PyTorch and Weaviate on a fast-paced team"),
                      max_amount |-> Float(1200000), job_url |-> Str("https://jobs.example/1")]),
      With(EmptyRow, [title |-> Str("Data Engineer, AI"), location |-> Str("NYC"),
                      max_amount |-> Float(0), job_url |-> Str("https://jobs.example/2")]),
      With(EmptyRow, [title |-> Str("ML Engineer"), company |-> Str("Initech Labs"),
                      location |-> Str("Remote"), description |-> Str("Weaviate"),
                      min_amount |-> Float(800000), max_amount |-> Float(900000),
                      job_url |-> Str("https://jobs.example/1")]),
      With(EmptyRow, [title |-> Str("Chef"), max_amount |-> Str("-5")]),
      With(EmptyRow, [company |-> Str("Acme"), max_amount |-> Float(1000000)]),
      With(EmptyRow, [title |-> Str("VP of AI"), location |-> Str("NYC"),
                      job_url |-> Str("https://jobs.example/3")]) }

\* The text with one keyword of every skill of SKILL_KEYWORDS.
AllSkillsText ==
    "agentic,aws,anthropic,autogen,azure,bedrock,chain of thought,chroma,claude,cohere,crewai,dspy,docker,embeddings,faiss,fine-tuning,gcp,gpt-3,gpt4,gemini, go ,haystack,huggingface,jax,javascript,keras,kubernetes,langchain,llama,llamaindex,mlflow,milvus,mistral,multimodal,openai,pinecone,prompt engineering,pytorch,python,qdrant,rag,rlhf,rust,sagemaker,semantic kernel,tensorflow,transformers,typescript,vector search,vertex ai,weaviate,wandb,pgvector,sklearn"

\* A row with a given salary_max and URL.
SalaryRow(title, amount, url) ==
    With(EmptyRow, [title |-> Str(title), max_amount |-> Float(amount * 10), job_url |-> Str(url)])

\* Frames larger than MaxRows allows or with more skills than the summary
\* keeps: five salaries in two categories, four salaries, two negative
\* salaries of odd sum, and more than 50 distinct skills, met after two
\* skills of a first record; a posting met first without and then with its
\* title.
IntelExamples ==
    { << SalaryRow("ML Engineer", 100000, "a"), SalaryRow("Data Engineer", 120000, "b"),
         SalaryRow("ML Engineer", 90000, "c"), SalaryRow("Senior ML Engineer", 200000, "d"),
         SalaryRow("Data Engineer", 110000, "e") >>,
      << SalaryRow("ML Engineer", 100000, "a"), SalaryRow("Data Engineer", 120000, "b"),
         SalaryRow("ML Engineer", 90000, "c"), SalaryRow("Senior ML Engineer", 200000, "d") >>,
      << SalaryRow("Chef", -5, "a"), SalaryRow("Chef", -4, "b") >>,
      << With(EmptyRow, [title |-> Str("ML Engineer"), job_url |-> Str("a"),
                         description |-> Str("Weaviate and pgvector")]),
         With(EmptyRow, [title |-> Str("AI Engineering Manager"), job_url |-> Str("b"),
                         description |-> Str(AllSkillsText)]) >>,
      << With(EmptyRow, [title |-> Str("AI Engineering Manager"), job_url |-> Str("b"),
                         description |-> Str(AllSkillsText)]) >>,
      << With(EmptyRow, [company |-> Str("Acme"), job_url |-> Str("a")]),
         SalaryRow("ML Engineer", 100000, "a") >> }

IntelFrames(n) == SeqsUpTo(IntelRows, n) \cup IntelExamples

InitIntel == InitFrame(IntelFrames(MaxRows))

SpecIntel == InitIntel /\ [][Next]_vars

\* The vocabulary of the tables as input: every keyword of
\* SENIORITY_PATTERNS as a title and every alias of METRO_MAPPING as a
\* location, alone and inside a longer text.
KeywordTitles ==
    UNION { { SENIORITY_PATTERNS[g][2][i] : i \in DOMAIN SENIORITY_PATTERNS[g][2] } :
              g \in DOMAIN SENIORITY_PATTERNS }
        \cup {"Director", "Director of Engineering", "Managing Director"}

AliasLocations ==
    { METRO_MAPPING[i][1] : i \in DOMAIN METRO_MAPPING }
        \cup {"Atlanta", "Atlanta, GA", "Greater Atlanta Area"}

KeywordRows ==
    { With(EmptyRow, [title |-> Str(t)]) : t \in KeywordTitles }
        \cup { With(EmptyRow, [title |-> Str("Chef"), location |-> Str(l)]) :
                 l \in AliasLocations }
        \cup {EmptyRow}

InitKeywords == InitOneRow(KeywordRows)

SpecKeywords == InitKeywords /\ [][Next]_vars

\* Titles of every seniority level with descriptions that hold keywords of
\* another experience level, or none.
LevelFrags ==
    {"Senior ", "Head of ML", "Jr. ", "Chef", "VP, ", "Chief ", "Staff ", " II "}

LevelDescriptions ==
    { Str("Entry level: a junior associate joins the team"),
      Str("You report to a senior director"),
      Str("We bake bread"),
      NaN }

LevelRows(n) ==
    { With(EmptyRow, [title |-> Str(t), description |-> d]) :
        t \in Texts(LevelFrags, n), d \in LevelDescriptions }
        \cup {EmptyRow}

InitLevels == InitOneRow(LevelRows(MaxFrags))

SpecLevels == InitLevels /\ [][Next]_vars
-----------------------------------------------------------------------------
(* Properties *)

\* A cell holds a value: the column exists and the value is not missing.
Present(cell) == cell.k \notin {"nan", "none", "absent"}

\* The records of the run are built by process_jobs: the run is not one of
\* main on a directory without a raw file.
Processing == caller = "direct" \/ data.raw_files

\* The positions of the records process_jobs has built.
Records == IF Processing THEN DOMAIN jobs ELSE {}

\* The rows the loop has passed.
Seen == SubSeq(df, 1, idx - 1)

\* The rows with a title, in frame order, among the rows passed.
Kept == SelectSeq(Seen, LAMBDA r : Present(r.title))

\* The least element of a non-empty set of numbers.
Least(S) == CHOOSE i \in S : \A j \in S : i <= j

\* C1: the number of enriched records equals the number of raw records minus
\* the number of raw records whose title is missing; every record with a
\* title yields exactly one enriched record whatever its other fields hold,
\* the enriched records appear in input order, and no error is raised.  It
\* holds after every pass of the loop for the rows passed so far, and so for
\* the whole frame on return.
C1_DropInvariant ==
    Processing =>
        /\ pc # "raised"
        /\ pc = "done" => idx = Len(df) + 1
        /\ Len(jobs) = Len(Seen) - Cardinality({ i \in DOMAIN Seen : ~Present(Seen[i].title) })
        /\ Len(jobs) = Len(Kept)
        /\ \A n \in Records : jobs[n].title = Kept[n].title.s

\* C1 witness: a frame of three rows or more has been processed to the end,
\* a row without a title was dropped between two enriched rows, and a row
\* with an empty title and a row with malformed salary cells were enriched.
C1_Witness ==
    /\ pc = "done"
    /\ Len(jobs) >= 2
    /\ \E i, j, m \in DOMAIN df :
          /\ i < j /\ j < m
          /\ Present(df[i].title) /\ ~Present(df[j].title) /\ Present(df[m].title)
    /\ \E n \in Records : jobs[n].title = ""
    /\ \E n \in Records : Kept[n].min_amount = Str("competitive") /\ Kept[n].max_amount = Inf

\* The indices of the pairs of a keyword table whose keyword occurs in text.
Hits(table, text) == { i \in DOMAIN table : contains(text, table[i][1]) }

\* C2: categorize_job returns the category of the earliest rule of
\* CATEGORY_RULES whose keyword is a substring of the lower-cased title,
\* ignoring every later matching rule, and "Other AI Role" exactly when no
\* rule keyword is a substring; "Data Engineer, AI" yields "Data Engineer".
C2_FirstMatchWins ==
    \A n \in Records :
          LET hits == Hits(CATEGORY_RULES, lower(Kept[n].title.s))
          IN  /\ (jobs[n].job_category = "Other AI Role") <=> (hits = {})
              /\ hits # {} => jobs[n].job_category = CATEGORY_RULES[Least(hits)][2]
              /\ Kept[n].title.s = "Data Engineer, AI" => jobs[n].job_category = "Data Engineer"

\* C2 witness: "Data Engineer, AI" has been categorized; it matches the
\* "data engineer" rule and the later ", ai" rule, which name different
\* categories.
C2_Witness ==
    /\ pc = "done"
    /\ \E n \in Records :
          /\ jobs[n].title = "Data Engineer, AI"
          /\ jobs[n].job_category = "Data Engineer"
          /\ \E i, j \in Hits(CATEGORY_RULES, lower(jobs[n].title)) :
                i < j /\ CATEGORY_RULES[i][2] # CATEGORY_RULES[j][2]

\* The order in which the seniority groups are evaluated.
SeniorityOrder == <<"C-Level", "VP", "Director", "Senior", "Mid", "Entry">>

\* The keywords SENIORITY_PATTERNS lists under a level.
SeniorityKeywords(level) ==
    LET g == CHOOSE i \in DOMAIN SENIORITY_PATTERNS : SENIORITY_PATTERNS[i][1] = level
    IN  { SENIORITY_PATTERNS[g][2][i] : i \in DOMAIN SENIORITY_PATTERNS[g][2] }

\* The positions in SeniorityOrder of the levels with a keyword in text.
LevelHits(text) ==
    { g \in DOMAIN SeniorityOrder :
        \E w \in SeniorityKeywords(SeniorityOrder[g]) : contains(text, w) }

\* C3: classify_seniority evaluates the groups in the order C-Level, VP,
\* Director, Senior, Mid, Entry and returns the level of the first group
\* with a keyword occurring in the lower-cased title; it returns "Mid" when
\* no keyword of any group occurs or the title is missing.
C3_SeniorityFirstGroup ==
    /\ \A n \in Records :
          LET hits == LevelHits(lower(Kept[n].title.s))
          IN  jobs[n].seniority =
                 IF hits = {} THEN "Mid" ELSE SeniorityOrder[Least(hits)]
    /\ classify_seniority(NaN) = "Mid"
    /\ classify_seniority(None) = "Mid"

\* C3 witness: a title with keywords of two groups, neither of them Mid, has
\* been classified as the earlier one, and it is not the first level.
C3_Witness ==
    /\ pc = "done"
    /\ \E n \in Records :
          LET hits == LevelHits(lower(jobs[n].title))
          IN  /\ Cardinality(hits) >= 2
              /\ Least(hits) > 1
              /\ jobs[n].seniority = SeniorityOrder[Least(hits)]
              /\ jobs[n].seniority # "Mid"

\* The canonical names with a keyword variant occurring in text.
SkillNames(text) ==
    { SKILL_KEYWORDS[i][2] : i \in Hits(SKILL_KEYWORDS, text) }

\* The elements of a sequence.
Range(f) == { f[i] : i \in DOMAIN f }

\* C4: extract_skills returns exactly the canonical skill names with a
\* keyword variant occurring in the lower-cased description, each once and
\* in ascending order; "We use PyTorch, LangChain and AWS SageMaker" yields
\* exactly PyTorch, LangChain, AWS and SageMaker.
C4_SkillsCollectAll ==
    \A n \in Records :
          LET tags == jobs[n].skills_tags
              text == IF Present(Kept[n].description) THEN Kept[n].description.s ELSE ""
          IN  /\ Range(tags) = SkillNames(lower(text))
              /\ \A i, j \in DOMAIN tags : i < j => str_less(tags[i], tags[j])
              /\ text = "We use PyTorch, LangChain and AWS SageMaker"
                    => Range(tags) = {"PyTorch", "LangChain", "AWS", "SageMaker"}

\* C4 witness: a description in which one skill occurs under two variants
\* and names in upper and lower case occur has been tagged.
C4_Witness ==
    /\ pc = "done"
    /\ \E n \in Records :
          LET text == lower(jobs[n].description)
          IN  /\ \E i, j \in Hits(SKILL_KEYWORDS, text) :
                    i # j /\ SKILL_KEYWORDS[i][2] = SKILL_KEYWORDS[j][2]
              /\ {"GPT-4", "pgvector", "scikit-learn"} \subseteq Range(jobs[n].skills_tags)
              /\ Len(jobs[n].skills_tags) >= 4

\* C5: normalize_metro returns the canonical metro of the first alias, in
\* METRO_MAPPING order, that is a substring of the lower-cased location, and
\* null when the location is missing or no alias is a substring;
\* "San Jose, CA" yields "San Francisco" and "Nowhereville" yields null.
C5_MetroFirstAlias ==
    /\ \A n \in Records :
          LET text == IF Present(Kept[n].location) THEN Kept[n].location.s ELSE ""
              hits == Hits(METRO_MAPPING, lower(text))
          IN  /\ jobs[n].metro =
                    IF hits = {} THEN None ELSE Str(METRO_MAPPING[Least(hits)][2])
              /\ text = "San Jose, CA" => jobs[n].metro = Str("San Francisco")
              /\ text = "Nowhereville" => jobs[n].metro = None
    /\ normalize_metro(NaN) = None
    /\ normalize_metro(None) = None

\* C5 witness: a location that contains "San Jose, CA" and an alias of
\* another metro has been normalized to the metro of the earlier alias.
C5_Witness ==
    /\ pc = "done"
    /\ \E n \in Records :
          LET hits == Hits(METRO_MAPPING, lower(jobs[n].location))
          IN  /\ \E i, j \in hits : i < j /\ METRO_MAPPING[i][2] # METRO_MAPPING[j][2]
              /\ jobs[n].metro = Str(METRO_MAPPING[Least(hits)][2])
              /\ contains(jobs[n].location, "San Jose, CA")

\* The lower-cased location text determine_remote_type searches: the text of
\* the cell, "nan" for a missing value, "" without the column.
RemoteLocationText(row) ==
    IF row.location.k = "str" THEN lower(row.location.s)
    ELSE IF row.location.k = "nan" THEN "nan"
    ELSE ""

\* C6: determine_remote_type returns "remote" if the explicit remote flag is
\* true or the lower-cased location contains "remote"; otherwise "hybrid" if
\* the location contains "hybrid"; otherwise "onsite".  A location with both
\* words is "remote", and the result is one of the three labels.
C6_RemoteType ==
    \A n \in Records :
        LET flag == Kept[n].is_remote = Bool(TRUE)
            text == RemoteLocationText(Kept[n])
        IN  /\ jobs[n].remote_type =
                  IF flag \/ contains(text, "remote") THEN "remote"
                  ELSE IF contains(text, "hybrid") THEN "hybrid"
                  ELSE "onsite"
            /\ jobs[n].remote_type \in {"remote", "hybrid", "onsite"}

\* C7: a raw record whose is_remote value is absent or null (a missing value
\* in a present column as well as a missing column) is treated as not
\* flagged remote: if its location contains neither "remote" nor "hybrid",
\* its remote_type is "onsite" and its is_remote field is false.
C7_NullFlagIsNotRemote ==
    \A n \in Records :
        LET text == RemoteLocationText(Kept[n])
        IN  (/\ ~Present(Kept[n].is_remote)
             /\ ~contains(text, "remote")
             /\ ~contains(text, "hybrid"))
            => (jobs[n].remote_type = "onsite" /\ jobs[n].is_remote = FALSE)

\* The interval cell contains "hour" (the text is lower-cased first, as all
\* text the classifier searches).
IntervalHasHour(row) ==
    Present(row.interval) /\ contains(lower(row.interval.s), "hour")

\* C8 for one bound: a parsed bound below 500 is multiplied by 2080 when the
\* interval contains "hour", and is left unchanged otherwise.
BoundAnnualized(cell, salary, hourly) ==
    (Present(cell) /\ int_of_float(cell).ok) =>
        LET parsed == int_of_float(cell).n
        IN  salary = Integer(IF hourly /\ parsed < 500 THEN parsed * 2080 ELSE parsed)

\* C8: when the interval contains "hour", each parsed salary bound below 500
\* is multiplied by 2080 and each bound of 500 or more is left unchanged (45
\* becomes 93600, 499 becomes 1037920, 500 and 600 stay); when the interval
\* is missing or does not contain "hour", no bound is multiplied.
\* salary_type is "hourly" exactly when the interval contains "hour".
C8_HourlyAnnualization ==
    \A n \in Records :
        LET row    == Kept[n]
            hourly == IntervalHasHour(row)
        IN  /\ BoundAnnualized(row.min_amount, jobs[n].salary_min, hourly)
            /\ BoundAnnualized(row.max_amount, jobs[n].salary_max, hourly)
            /\ jobs[n].salary_type = IF hourly THEN "hourly" ELSE "annual"
            /\ (hourly /\ row.min_amount = Float(450))  => jobs[n].salary_min = Integer(93600)
            /\ (hourly /\ row.min_amount = Float(4990)) => jobs[n].salary_min = Integer(1037920)
            /\ (hourly /\ row.min_amount = Float(5000)) => jobs[n].salary_min = Integer(500)
            /\ (hourly /\ row.min_amount = Float(6000)) => jobs[n].salary_min = Integer(600)
            /\ (~hourly /\ row.max_amount = Float(450)) => jobs[n].salary_max = Integer(45)

\* C8 witness: hourly rows with the bounds 45, 499, 500 and 600 have been
\* normalized, one of them under the interval "Hourly".
C8_Witness ==
    /\ pc = "done"
    /\ \E n \in Records :
          /\ jobs[n].salary_type = "hourly"
          /\ Kept[n].min_amount \in {Float(450), Float(4990), Float(5000), Float(6000)}
          /\ jobs[n].salary_min \in {Integer(93600), Integer(1037920), Integer(500), Integer(600)}
          /\ Kept[n].max_amount = Float(6000)
          /\ jobs[n].salary_max = Integer(600)

\* The four components of the data quality score of a raw record.
DescriptionPoints(row) ==
    IF Present(row.description) /\ Len(row.description.s) > 100 THEN 40 ELSE 0
SalaryPoints(row) ==
    IF Present(row.min_amount) \/ Present(row.max_amount) THEN 30 ELSE 0
LocationPoints(row) ==
    IF Present(row.location) /\ row.location.s \notin {"", "nan", "None"} THEN 15 ELSE 0
CompanyPoints(row) ==
    IF Present(row.company) /\ row.company.s \notin {"", "nan", "None", "Unknown"} THEN 15 ELSE 0

\* C9: the data quality score is the sum of four independent components (40
\* for a description longer than 100 characters, 30 for a present salary
\* bound, 15 for a real location, 15 for a real company); it lies between 0
\* and 100; the label is "Premium" from 85, "Good" from 55 and "Basic"
\* below; a record with only a title scores 0 and is "Basic".
C9_DataQuality ==
    \A n \in Records :
        LET row   == Kept[n]
            score == jobs[n].data_quality_score
        IN  /\ score = DescriptionPoints(row) + SalaryPoints(row)
                         + LocationPoints(row) + CompanyPoints(row)
            /\ score \in 0..100
            /\ jobs[n].data_quality =
                  IF score >= 85 THEN "Premium"
                  ELSE IF score >= 55 THEN "Good"
                  ELSE "Basic"
            /\ (\A c \in Columns \ {"title"} : ~Present(row[c]))
                  => (score = 0 /\ jobs[n].data_quality = "Basic")
            /\ (/\ row.description = Str(Pad(150)) /\ row.max_amount = Float(1000000)
                /\ row.location = Str("Austin") /\ row.company = Str("Acme"))
                  => (score = 100 /\ jobs[n].data_quality = "Premium")

\* C9 witness: the record of the specification's example (description of 150
\* characters, salary_max 100000, location Austin, company Acme) has been
\* scored 100 and labelled "Premium".
C9_Witness ==
    /\ pc = "done"
    /\ \E n \in Records :
          /\ Len(jobs[n].description) = 150
          /\ Kept[n].max_amount = Float(1000000)
          /\ jobs[n].location = "Austin"
          /\ jobs[n].company = "Acme"
          /\ jobs[n].data_quality_score = 100
          /\ jobs[n].data_quality = "Premium"

\* A present cell that int(float(.)) cannot convert.
Unparseable(cell) == Present(cell) /\ ~int_of_float(cell).ok

\* C10: for a present but unparseable min_amount or max_amount, process_jobs
\* raises no error and still emits the record, with the corresponding salary
\* field null and the other salary field unaffected (equal to the field of
\* the same record with the unparseable cell missing).
C10_UnparseableSalaryIsNull ==
    /\ pc # "raised"
    /\ Processing => Len(jobs) = Len(Kept)
    /\ \A n \in Records :
          LET row == Kept[n]
          IN  /\ Unparseable(row.min_amount) =>
                    /\ jobs[n].salary_min = None
                    /\ jobs[n].salary_max =
                          process_row(With(row, [min_amount |-> NaN])).job.salary_max
              /\ Unparseable(row.max_amount) =>
                    /\ jobs[n].salary_max = None
                    /\ jobs[n].salary_min =
                          process_row(With(row, [max_amount |-> NaN])).job.salary_min

\* C10 witness: a record with an unparseable text in min_amount and an
\* hourly max_amount has been emitted with salary_min null and salary_max
\* annualized.
C10_Witness ==
    /\ pc = "done"
    /\ \E n \in Records :
          /\ Kept[n].min_amount \in {Str("competitive"), Str("$4"), Str("4.5.")}
          /\ Kept[n].max_amount = Float(1200)
          /\ jobs[n].salary_min = None
          /\ jobs[n].salary_max = Integer(249600)


-----------------------------------------------------------------------------
(* C11: the tech-company flag *)

\* The text detect_tech_company searches for a record: the company and the
\* description joined by one space, lower-cased.
TechText(job) == lower(job.company \o " " \o job.description)

TechKeywordHit(job) ==
    \E i \in DOMAIN TECH_COMPANY_KEYWORDS : contains(TechText(job), TECH_COMPANY_KEYWORDS[i])

\* C11 as stated: a record is flagged as a tech company if and only if a
\* keyword of TECH_COMPANY_KEYWORDS is a substring of the lower-cased
\* company and description, an empty company included.
C11_TechIffKeyword ==
    \A i \in Records : jobs[i].is_tech <=> TechKeywordHit(jobs[i])

\* C11 amended: a record is flagged as a tech company if and only if its
\* company is not empty and a keyword of TECH_COMPANY_KEYWORDS is a
\* substring of the lower-cased company, one space and description; with an
\* empty company the flag is false whatever the description holds.
C11_TechIffCompanyAndKeyword ==
    \A i \in Records :
        jobs[i].is_tech <=> (jobs[i].company # "" /\ TechKeywordHit(jobs[i]))

\* An empty company is left unflagged although the description holds a
\* keyword.
C11_Witness ==
    /\ Processing
    /\ pc = "done"
    /\ Len(jobs) = 1
    /\ jobs[1].company = ""
    /\ ~jobs[1].is_tech
    /\ any_in(lower(jobs[1].description), TECH_COMPANY_KEYWORDS)

-----------------------------------------------------------------------------
(* C12: red flags and buzzwords *)

\* The phrases of a red-flag category found in a lower-cased description.
FlagPhraseHits(category, text) ==
    { p \in DOMAIN RED_FLAG_PATTERNS[category][2] :
        contains(text, RED_FLAG_PATTERNS[category][2][p]) }

\* The positions in AI_BUZZWORDS of the phrases found in it.
BuzzwordHits(text) == { b \in DOMAIN AI_BUZZWORDS : contains(text, AI_BUZZWORDS[b]) }

\* The position of a phrase in AI_BUZZWORDS.
BuzzwordIndex(phrase) == CHOOSE b \in DOMAIN AI_BUZZWORDS : AI_BUZZWORDS[b] = phrase

\* C12: the red flags of a record hold no category twice and hold a
\* category exactly when one or more of its phrases is a substring of the
\* lower-cased description; its buzzwords are exactly the phrases of
\* AI_BUZZWORDS that are substrings of it, each once, in table order.
C12_FlagsOncePerCategory ==
    \A i \in Records :
        LET text  == lower(jobs[i].description)
            flags == jobs[i].red_flags
            found == jobs[i].buzzwords
        IN  /\ \A m, n \in DOMAIN flags : flags[m] = flags[n] => m = n
            /\ \A c \in DOMAIN RED_FLAG_PATTERNS :
                   (RED_FLAG_PATTERNS[c][1] \in Range(flags)) <=> FlagPhraseHits(c, text) # {}
            /\ Range(flags) \subseteq { RED_FLAG_PATTERNS[c][1] : c \in DOMAIN RED_FLAG_PATTERNS }
            /\ Range(found) = { AI_BUZZWORDS[b] : b \in BuzzwordHits(text) }
            /\ \A m, n \in DOMAIN found :
                   m < n => BuzzwordIndex(found[m]) < BuzzwordIndex(found[n])

\* A description with two phrases of one category and phrases of another,
\* and with two buzzwords that appear in it against the table order.
C12_Witness ==
    /\ Processing
    /\ pc = "done"
    /\ Len(jobs) = 1
    /\ Cardinality(FlagPhraseHits(3, lower(jobs[1].description))) >= 2
    /\ jobs[1].red_flags = <<"vague_compensation", "unrealistic_requirements", "overwork_signals">>
    /\ jobs[1].buzzwords = <<"fast-paced", "dynamic">>

-----------------------------------------------------------------------------
(* C13 .. C18: the market intelligence summary *)

\* generate_market_intelligence has returned for the current list of jobs.
Aggregated == pc \in {"intel", "saved"}

\* C13: the summary of an empty collection has total_jobs 0, tech_companies
\* 0, tech_percentage 0, empty salary_stats, salary_by_category and
\* salary_by_seniority, and every count mapping empty.
C13_EmptyAggregation ==
    (Aggregated /\ jobs = <<>>) =>
        /\ intel.total_jobs = 0
        /\ intel.tech_companies = 0
        /\ intel.tech_percentage = Integer(0)
        /\ intel.salary_stats = <<>>
        /\ intel.salary_by_category = <<>>
        /\ intel.salary_by_seniority = <<>>
        /\ \A mapping \in {"skills", "skills_by_category", "categories", "experience_levels",
                           "seniority_breakdown", "remote_breakdown", "top_metros",
                           "company_stages", "data_quality_breakdown", "buzzwords",
                           "red_flags"} :
               intel[mapping] = <<>>

\* The aggregation has run on an empty list that process_jobs returned for
\* a frame whose rows all lack a title.
C13_Witness ==
    /\ pc = "intel"
    /\ jobs = <<>>
    /\ df # <<>>
    /\ intel # None

\* The salary_max values the aggregation collected, in record order.
Salaries == [i \in DOMAIN collected(jobs) |-> collected(jobs)[i].salary_max.n]

\* The salary_max of a record, null when the record has none.
SalaryMax(job) == get(job, "salary_max", None)

\* m is the element at index floor(n/2), counted from 0, of the values
\* sorted in ascending order.
IsUpperMedian(m, values) ==
    LET n == Len(values)
    IN  /\ m \in Range(values)
        /\ Cardinality({ i \in DOMAIN values : values[i] < m }) <= n \div 2
        /\ Cardinality({ i \in DOMAIN values : values[i] <= m }) >= n \div 2 + 1

\* The quotient rounded toward zero, and toward minus infinity.
Truncated(total, n) == IF total >= 0 THEN total \div n ELSE -((-total) \div n)
Floored(total, n)   == CHOOSE a \in (Truncated(total, n) - 1)..Truncated(total, n) :
                           a * n <= total /\ total < (a + 1) * n

\* C14 as stated: for n >= 1 collected values the median is the element at
\* index floor(n/2) of the sorted values, avg is the mean truncated to an
\* integer and count_with_salary is n.
C14_MedianTruncatedMeanCount ==
    (Aggregated /\ Salaries # <<>>) =>
        /\ IsUpperMedian(dict_get(intel.salary_stats, "median", None), Salaries)
        /\ dict_get(intel.salary_stats, "avg", None) = Truncated(sum(Salaries), Len(Salaries))
        /\ dict_get(intel.salary_stats, "count_with_salary", None) = Len(Salaries)

\* C14 amended: for n >= 1 collected values the median is the element at
\* index floor(n/2) of the sorted values, avg is the floor of the mean (the
\* truncated mean unless the sum is negative) and count_with_salary is n.
C14_MedianFlooredMeanCount ==
    (Aggregated /\ Salaries # <<>>) =>
        /\ IsUpperMedian(dict_get(intel.salary_stats, "median", None), Salaries)
        /\ dict_get(intel.salary_stats, "avg", None) = Floored(sum(Salaries), Len(Salaries))
        /\ sum(Salaries) >= 0 =>
               dict_get(intel.salary_stats, "avg", None) = Truncated(sum(Salaries), Len(Salaries))
        /\ dict_get(intel.salary_stats, "count_with_salary", None) = Len(Salaries)

\* The example of five salaries: median 110000, mean 124000, count 5.
C14_Witness ==
    /\ Aggregated
    /\ Salaries = <<100000, 120000, 90000, 200000, 110000>>
    /\ intel.salary_stats = << <<"min", 90000>>, <<"max", 200000>>, <<"median", 110000>>,
                               <<"avg", 124000>>, <<"count_with_salary", 5>> >>

\* The records whose salary_max is not null.
WithSalary == { i \in DOMAIN jobs : SalaryMax(jobs[i]) # None }

\* C15 as stated: count_with_salary is the number of records whose
\* salary_max is not null, records with a salary_max of 0 included (no
\* salary_stats at all standing for a count of 0).
C15_CountsNonNull ==
    Aggregated =>
        dict_get(intel.salary_stats, "count_with_salary", 0) = Cardinality(WithSalary)

\* C15 amended: count_with_salary is the number of records whose salary_max
\* is neither null nor 0; when there is none, salary_stats is empty.
C15_CountsNonZero ==
    Aggregated =>
        LET contributing == { i \in WithSalary : SalaryMax(jobs[i]).n # 0 }
        IN  /\ dict_get(intel.salary_stats, "count_with_salary", 0) = Cardinality(contributing)
            /\ contributing = {} <=> intel.salary_stats = <<>>

\* A record with salary_max 0 is aggregated with a record that has a
\* salary, and only the latter is counted.
C15_Witness ==
    /\ Aggregated
    /\ \E i, j \in DOMAIN jobs :
           SalaryMax(jobs[i]) = Integer(0) /\ SalaryMax(jobs[j]) = Integer(120000)
    /\ dict_get(intel.salary_stats, "count_with_salary", 0) < Cardinality(WithSalary)

\* The sum of the counts of a mapping.
Total(mapping) == sum([i \in DOMAIN mapping |-> mapping[i][2]])

\* C16: the counts of categories, experience_levels, seniority_breakdown,
\* remote_breakdown, company_stages and data_quality_breakdown each sum to
\* total_jobs; the counts of top_metros sum to at most the number of
\* records with a non-null metro; tech_companies is at most total_jobs.
C16_CountsSumToTotal ==
    Aggregated =>
        /\ intel.total_jobs = Len(jobs)
        /\ \A mapping \in {"categories", "experience_levels", "seniority_breakdown",
                           "remote_breakdown", "company_stages", "data_quality_breakdown"} :
               Total(intel[mapping]) = intel.total_jobs
        /\ Total(intel.top_metros)
               <= Cardinality({ i \in DOMAIN jobs : get(jobs[i], "metro", None) # None })
        /\ intel.tech_companies <= intel.total_jobs

\* Records of two categories and two seniority levels, some without a
\* metro and some of a tech company, have been aggregated.
C16_Witness ==
    /\ Aggregated
    /\ Len(jobs) >= 3
    /\ Len(intel.categories) >= 2
    /\ Len(intel.seniority_breakdown) >= 2
    /\ 0 < Total(intel.top_metros) /\ Total(intel.top_metros) < Len(jobs)
    /\ 0 < intel.tech_companies /\ intel.tech_companies < Len(jobs)

\* The value the aggregation reads for a key of a record: the value of the
\* key, and for a record without the key the default of job.get.
DEFAULTS ==
    [skills_tags |-> <<>>, buzzwords |-> <<>>, red_flags |-> <<>>, job_category |-> "Other",
     experience_level |-> "mid", seniority |-> "Mid", remote_type |-> "onsite",
     company_stage |-> "Unknown", data_quality |-> "Basic"]

Read(job, field) == get(job, field, DEFAULTS[field])

\* The values of a field among the records that contributed a salary.
ContributingValues(field) ==
    { Read(collected(jobs)[i], field) : i \in DOMAIN collected(jobs) }

\* A salary breakdown has one entry per value of the field among the
\* contributing records and no other, no entry has count 0 and the counts
\* sum to count_with_salary.
BreakdownMatches(breakdown, field) ==
    /\ { breakdown[i][1] : i \in DOMAIN breakdown } = ContributingValues(field)
    /\ \A i, j \in DOMAIN breakdown : breakdown[i][1] = breakdown[j][1] => i = j
    /\ \A i \in DOMAIN breakdown :
           /\ dict_get(breakdown[i][2], "count", 0) > 0
           /\ dict_get(breakdown[i][2], "count", 0) =
                  Cardinality({ n \in DOMAIN collected(jobs) :
                                  Read(collected(jobs)[n], field) = breakdown[i][1] })
    /\ sum([i \in DOMAIN breakdown |-> dict_get(breakdown[i][2], "count", 0)])
           = dict_get(intel.salary_stats, "count_with_salary", 0)

\* C17: salary_by_category has an entry for a category exactly when a
\* record of that category contributed a salary_max to salary_stats, no
\* entry has count 0 and the entry counts sum to count_with_salary; the same
\* for salary_by_seniority over the seniority levels.
C17_SalaryBreakdowns ==
    Aggregated =>
        /\ BreakdownMatches(intel.salary_by_category, "job_category")
        /\ BreakdownMatches(intel.salary_by_seniority, "seniority")

\* Two categories contributed salaries and a third category, present among
\* the records, contributed none.
C17_Witness ==
    /\ Aggregated
    /\ Len(intel.salary_by_category) = 2
    /\ Len(intel.categories) = 3
    /\ Len(intel.salary_by_seniority) >= 1
    /\ Len(intel.salary_by_seniority) < Len(intel.seniority_breakdown)

\* The number of occurrences of a key in a list and the position of its
\* first occurrence.
CountOf(items, key)   == Cardinality({ i \in DOMAIN items : items[i] = key })
FirstSeen(items, key) == Least({ i \in DOMAIN items : items[i] = key })

\* key a precedes key b in the frequency order of a list: a higher count,
\* or the same count and an earlier first occurrence.
Precedes(items, a, b) ==
    \/ CountOf(items, a) > CountOf(items, b)
    \/ CountOf(items, a) = CountOf(items, b) /\ FirstSeen(items, a) < FirstSeen(items, b)

\* kept holds the first limit keys of the frequency order of items, in that
\* order and with their counts.
IsTop(kept, items, limit) ==
    /\ Len(kept) <= limit
    /\ Len(kept) = Min(limit, Cardinality(Range(items)))
    /\ \A i \in DOMAIN kept :
           kept[i][1] \in Range(items) /\ kept[i][2] = CountOf(items, kept[i][1])
    /\ \A i, j \in DOMAIN kept : i < j => Precedes(items, kept[i][1], kept[j][1])
    /\ \A omitted \in Range(items) \ { kept[i][1] : i \in DOMAIN kept } :
           \A i \in DOMAIN kept : Precedes(items, kept[i][1], omitted)

\* kept holds every key of items with its count.
IsWhole(kept, items) ==
    /\ { kept[i][1] : i \in DOMAIN kept } = Range(items)
    /\ \A i, j \in DOMAIN kept : kept[i][1] = kept[j][1] => i = j
    /\ \A i \in DOMAIN kept : kept[i][2] = CountOf(items, kept[i][1])

\* The values of a list field of the records, record after record, and the
\* values of a scalar field.
Flattened(name) == extend_all([i \in DOMAIN jobs |-> iter(Read(jobs[i], name))])
Column(name)    == [i \in DOMAIN jobs |-> Read(jobs[i], name)]

\* The metros of the records that have one, in record order.
Metros ==
    LET with_metro == SelectSeq(jobs, LAMBDA job : get(job, "metro", None) # None)
    IN  [i \in DOMAIN with_metro |-> with_metro[i].metro.s]

\* C18: skills, buzzwords and top_metros are the first 50, 20 and 10 entries
\* of their frequency counters by descending count, equal counts in
\* first-encounter order: within the limit, no omitted key with a higher
\* count than a kept key, no earlier-encountered key omitted in favour of a
\* later one of equal count.  The other categorical mappings hold every key.
C18_TopNByCountThenEncounter ==
    Aggregated =>
        /\ IsTop(intel.skills, Flattened("skills_tags"), 50)
        /\ IsTop(intel.buzzwords, Flattened("buzzwords"), 20)
        /\ IsTop(intel.top_metros, Metros, 10)
        /\ IsWhole(intel.categories, Column("job_category"))
        /\ IsWhole(intel.experience_levels, Column("experience_level"))
        /\ IsWhole(intel.seniority_breakdown, Column("seniority"))
        /\ IsWhole(intel.remote_breakdown, Column("remote_type"))
        /\ IsWhole(intel.company_stages, Column("company_stage"))
        /\ IsWhole(intel.data_quality_breakdown, Column("data_quality"))
        /\ IsWhole(intel.red_flags, Flattened("red_flags"))

\* 54 distinct skills were counted and 50 are kept: the two met twice come
\* first, and four skills met once are omitted.
C18_Witness ==
    /\ Aggregated
    /\ Cardinality(Range(Flattened("skills_tags"))) = 54
    /\ Len(intel.skills) = 50
    /\ intel.skills[1] = <<"Weaviate", 2>>
    /\ intel.skills[2] = <<"pgvector", 2>>
    /\ intel.skills[50][2] = 1
    /\ ~has_key(intel.skills, "scikit-learn")

-----------------------------------------------------------------------------
(* C19: the order of CATEGORY_RULES *)

\* short is a proper substring of long.
ProperSubstring(short, long) == short # long /\ contains(long, short)

\* The rule that decides a title, 0 when no rule matches.
FirstRule(title) == first_match(CATEGORY_RULES, title, 1, Len(CATEGORY_RULES))

\* C19: whenever the keyword of one rule of CATEGORY_RULES is a proper
\* substring of the keyword of another rule, the rule with the longer
\* keyword comes earlier in the list; so the rule with the longer keyword
\* is not shadowed: no processed title that holds the longer keyword is
\* decided by the rule with the shorter one.
C19_SpecificBeforeGeneric ==
    \A n \in Records : \A i, j \in DOMAIN CATEGORY_RULES :
        (/\ ProperSubstring(CATEGORY_RULES[i][1], CATEGORY_RULES[j][1])
         /\ contains(lower(jobs[n].title), CATEGORY_RULES[j][1]))
            => (j < i /\ FirstRule(lower(jobs[n].title)) # i)

-----------------------------------------------------------------------------
(* C20: a run of main without any job *)

\* C20: a run of main whose list of jobs is empty after processing raises
\* no division-by-zero error, and when it has saved, jobs.json holds
\* total_jobs 0 and market_intelligence.json holds the summary.
C20_EmptyRunSaves ==
    (caller = "main" /\ jobs = <<>>) =>
        /\ pc # "ZeroDivisionError"
        /\ pc = "saved" =>
               /\ files.jobs_json.total_jobs = 0
               /\ files.market_intelligence_json = intel

-----------------------------------------------------------------------------
(* C21: aggregation over consecutive parts *)

\* The records before and after a cut of the job list.
PartA(k) == SubSeq(jobs, 1, k)
PartB(k) == SubSeq(jobs, k + 1, Len(jobs))

\* The keys of a mapping.
Keys(mapping) == { mapping[i][1] : i \in DOMAIN mapping }

\* whole is the key-wise sum of the mappings a and b.
AddsUp(whole, a, b) ==
    /\ Keys(whole) = Keys(a) \cup Keys(b)
    /\ \A key \in Keys(whole) :
           dict_get(whole, key, 0) = dict_get(a, key, 0) + dict_get(b, key, 0)

\* The same for a mapping of mappings.
AddsUpNested(whole, a, b) ==
    /\ Keys(whole) = Keys(a) \cup Keys(b)
    /\ \A key \in Keys(whole) :
           AddsUp(dict_get(whole, key, <<>>), dict_get(a, key, <<>>), dict_get(b, key, <<>>))

\* The values the parts report under one key of salary_stats.
PartStats(a, b, key) ==
    { dict_get(s.salary_stats, key, 0) : s \in { t \in {a, b} : t.salary_stats # <<>> } }

\* The summary whole is the merge of the summaries a and b.
IsMerge(whole, a, b) ==
    /\ whole.total_jobs = a.total_jobs + b.total_jobs
    /\ whole.tech_companies = a.tech_companies + b.tech_companies
    /\ dict_get(whole.salary_stats, "count_with_salary", 0)
           = dict_get(a.salary_stats, "count_with_salary", 0)
                 + dict_get(b.salary_stats, "count_with_salary", 0)
    /\ \A name \in {"categories", "experience_levels", "seniority_breakdown",
                    "remote_breakdown", "company_stages", "data_quality_breakdown",
                    "red_flags"} :
           AddsUp(whole[name], a[name], b[name])
    /\ AddsUpNested(whole.skills_by_category, a.skills_by_category, b.skills_by_category)
    /\ (whole.salary_stats = <<>>) = (PartStats(a, b, "min") = {})
    /\ whole.salary_stats # <<>> =>
           /\ \A v \in PartStats(a, b, "min") : dict_get(whole.salary_stats, "min", 0) <= v
           /\ dict_get(whole.salary_stats, "min", 0) \in PartStats(a, b, "min")
           /\ \A v \in PartStats(a, b, "max") : dict_get(whole.salary_stats, "max", 0) >= v
           /\ dict_get(whole.salary_stats, "max", 0) \in PartStats(a, b, "max")

\* C21: for any split of the job list into consecutive parts A and B,
\* total_jobs, tech_companies, count_with_salary and every count of the
\* untruncated mappings of the summary of the whole list are the key-wise
\* sums of the values in the summaries of A and of B, and salary_stats min
\* and max are the min and max over the two parts.
C21_Sharded ==
    Aggregated =>
        \A k \in 0..Len(jobs) :
            IsMerge(intel, generate_market_intelligence(PartA(k)),
                           generate_market_intelligence(PartB(k)))

\* A summary of a list cut into two parts that both hold a salary, a tech
\* company and the same skill, the part with the larger maximum first, and
\* a seniority level that only the first part has.
C21_Witness ==
    /\ Aggregated
    /\ \E k \in 1..(Len(jobs) - 1) :
           LET a == generate_market_intelligence(PartA(k))
               b == generate_market_intelligence(PartB(k))
           IN  /\ a.salary_stats # <<>> /\ b.salary_stats # <<>>
               /\ dict_get(a.salary_stats, "max", 0) > dict_get(b.salary_stats, "max", 0)
               /\ a.tech_companies > 0 /\ b.tech_companies > 0
               /\ Keys(a.seniority_breakdown) \ Keys(b.seniority_breakdown) # {}
               /\ \E c \in Keys(a.skills_by_category) \cap Keys(b.skills_by_category) :
                      Keys(dict_get(a.skills_by_category, c, <<>>))
                          \cap Keys(dict_get(b.skills_by_category, c, <<>>)) # {}

-----------------------------------------------------------------------------
(* C22: the order of the salary bounds *)

\* The number a cell that parses holds, as a decimal expansion: its sign,
\* the digits before the point without leading zeros and the digits after.
DecimalOf(cell) ==
    CASE cell.k = "float" ->
            LET t == IF cell.t < 0 THEN 0 - cell.t ELSE cell.t
            IN  [negative |-> cell.t < 0,
                 whole    |-> without_leading_zeros(nat_str(t \div 10)),
                 frac     |-> nat_str(t % 10)]
      [] cell.k = "int" ->
            [negative |-> cell.n < 0,
             whole    |-> without_leading_zeros(nat_str(IF cell.n < 0 THEN 0 - cell.n ELSE cell.n)),
             frac     |-> ""]
      [] cell.k = "bool" ->
            [negative |-> FALSE, whole |-> IF cell.b THEN "1" ELSE "", frac |-> ""]
      [] cell.k = "str" ->
            LET x == float_text(cell.s)
            IN  [negative |-> x.negative, whole |-> x.whole, frac |-> x.frac]

\* The decimal expansion stands for zero.
IsZero(x) == x.whole = "" /\ without_leading_zeros(x.frac) = ""

\* |x| <= |y| for decimal expansions.
MagnitudeLeq(x, y) ==
    IF x.whole # y.whole
    THEN \/ Len(x.whole) < Len(y.whole)
         \/ Len(x.whole) = Len(y.whole) /\ fraction_geq(y.whole, x.whole)
    ELSE fraction_geq(y.frac, x.frac)

\* x <= y for decimal expansions.
DecimalLeq(x, y) ==
    IF x.negative /\ y.negative THEN MagnitudeLeq(y, x)
    ELSE IF x.negative THEN TRUE
    ELSE IF y.negative THEN IsZero(x) /\ IsZero(y)
    ELSE MagnitudeLeq(x, y)

\* Both raw bounds parse and the raw minimum is not above the raw maximum.
RawBoundsOrdered(row) ==
    /\ Present(row.min_amount) /\ int_of_float(row.min_amount).ok
    /\ Present(row.max_amount) /\ int_of_float(row.max_amount).ok
    /\ DecimalLeq(DecimalOf(row.min_amount), DecimalOf(row.max_amount))

\* C22: for every raw record whose min_amount and max_amount both parse and
\* satisfy min_amount <= max_amount, the enriched record has
\* salary_min <= salary_max, for every interval value.
C22_BoundsStayOrdered ==
    \A n \in Records :
        RawBoundsOrdered(Kept[n]) => jobs[n].salary_min.n <= jobs[n].salary_max.n

-----------------------------------------------------------------------------
(* C23: the keywords of SENIORITY_PATTERNS *)

\* The keywords of the other levels that occur in text.
ForeignKeywords(level, text) ==
    UNION { { w \in SeniorityKeywords(SeniorityOrder[g]) : contains(text, w) } :
              g \in { h \in DOMAIN SeniorityOrder : SeniorityOrder[h] # level } }

\* text is a fair trial of keyword k of a level: it contains k, and every
\* keyword of another level that occurs in it occurs in k itself, so no
\* title that contains k has fewer keywords of other levels.
FairTitle(level, k, text) ==
    /\ contains(text, k)
    /\ \A w \in ForeignKeywords(level, text) : contains(k, w)

\* C23: every keyword of SENIORITY_PATTERNS can take effect: for each level
\* L and each keyword k listed under L there is a title containing k that
\* classify_seniority classifies as L.  If there is one, every title that
\* contains k and no keyword of another level besides those inside k is
\* such a title; so every processed title of this kind has the level of k,
\* and a title with "director" and nothing else has level "Director".
C23_EveryKeywordTakesEffect ==
    \A n \in Records : \A g \in DOMAIN SeniorityOrder :
        \A k \in SeniorityKeywords(SeniorityOrder[g]) :
            FairTitle(SeniorityOrder[g], k, lower(jobs[n].title))
                => jobs[n].seniority = SeniorityOrder[g]

-----------------------------------------------------------------------------
(* C24: the metro names of METRO_MAPPING *)

\* text is a fair trial of alias i: it contains the alias, and every alias
\* of another metro that occurs in it occurs in alias i itself.
FairLocation(i, text) ==
    /\ contains(text, METRO_MAPPING[i][1])
    /\ \A j \in Hits(METRO_MAPPING, text) :
           METRO_MAPPING[j][2] # METRO_MAPPING[i][2]
               => contains(METRO_MAPPING[i][1], METRO_MAPPING[j][1])

\* Another alias of the metro of alias i, taken alone as the location, is
\* mapped to that metro.
OtherAliasReaches(i) ==
    \E j \in DOMAIN METRO_MAPPING :
        /\ j # i
        /\ METRO_MAPPING[j][2] = METRO_MAPPING[i][2]
        /\ normalize_metro(Str(METRO_MAPPING[j][1])) = Str(METRO_MAPPING[i][2])

\* C24: every canonical metro name that is a value of METRO_MAPPING is
\* reachable: for each of them there is a location that normalize_metro
\* maps to it.  If there is one, a location that contains an alias of the
\* metro and no alias of another metro besides those inside that alias is
\* such a location, for at least one alias of the metro; so every
\* processed location of this kind has the metro of its alias unless
\* another alias of the metro reaches it, and a location with "atlanta"
\* and nothing else has metro "Atlanta".
C24_EveryMetroReachable ==
    \A n \in Records : \A i \in DOMAIN METRO_MAPPING :
        FairLocation(i, lower(jobs[n].location))
            => \/ jobs[n].metro = Str(METRO_MAPPING[i][2])
               \/ OtherAliasReaches(i)

-----------------------------------------------------------------------------
(* C25: deduplication and the title filter in main *)

\* The column main deduplicates on.
UrlColumn == IF has_column(data.header, "job_url") THEN "job_url" ELSE "job_url_direct"

\* The titled rows of the frame as loaded, by position.
Titled == { i \in DOMAIN raw : Present(raw[i].title) }

\* process_jobs has returned to main.
Processed ==
    /\ caller = "main"
    /\ data.raw_files
    /\ pc \in {"done", "reported", "intel", "saved", "ZeroDivisionError"}

\* C25: in main, deduplication by job URL followed by the title filter
\* loses no titled posting: for every job URL for which at least one raw row
\* has a title, the job list holds exactly one job with that URL, and every
\* titled raw row whose URL is null is kept.
C25_NoTitledPostingLost ==
    Processed =>
        /\ \A i \in Titled :
               Present(raw[i][UrlColumn]) =>
                   Cardinality({ n \in Records :
                                   jobs[n].source_url = raw[i][UrlColumn].s }) = 1
        /\ Cardinality({ n \in Records : jobs[n].source_url = "" })
               = Cardinality({ i \in Titled : ~Present(raw[i][UrlColumn]) })

-----------------------------------------------------------------------------
(* C26: the score and the has_salary and has_description flags *)

\* What the score of the n-th job holds beyond its three other components.
SalaryComponent(n) ==
    jobs[n].data_quality_score
        - DescriptionPoints(Kept[n]) - LocationPoints(Kept[n]) - CompanyPoints(Kept[n])
DescriptionComponent(n) ==
    jobs[n].data_quality_score
        - SalaryPoints(Kept[n]) - LocationPoints(Kept[n]) - CompanyPoints(Kept[n])

\* A salary bound of the enriched record is a non-null, non-zero integer.
NonZero(salary) == salary # None /\ salary.n # 0

\* C26: for every enriched record, data_quality_score contains the 30-point
\* salary component exactly when has_salary is true, that is exactly when
\* the enriched salary_min or salary_max is a non-null, non-zero integer;
\* and it contains the 40-point description component exactly when
\* has_description is true.
C26_ScoreMatchesFlags ==
    \A n \in Records :
        /\ (SalaryComponent(n) = 30) = jobs[n].has_salary
        /\ jobs[n].has_salary = (NonZero(jobs[n].salary_min) \/ NonZero(jobs[n].salary_max))
        /\ (DescriptionComponent(n) = 40) = jobs[n].has_description

-----------------------------------------------------------------------------
(* C27: seniority and experience_level *)

\* The keywords of the entry level of determine_experience_level.
EntryWords == <<"junior", "jr.", "jr ", "entry", "associate", " i ", " ii ">>

\* C27: for every enriched record, if seniority is "Senior" or "Director"
\* then experience_level is "senior", whatever the description contains; so
\* the two fields can only disagree on titles classified C-Level, VP, Mid or
\* Entry.
C27_SeniorityImpliesExperience ==
    \A n \in Records :
        jobs[n].seniority \in {"Senior", "Director"} => jobs[n].experience_level = "senior"

\* A record classified "Director" whose description holds entry keywords
\* and no senior keyword has experience_level "senior".
C27_Witness ==
    \E n \in Records :
        /\ jobs[n].seniority = "Director"
        /\ any_in(lower(jobs[n].description), EntryWords)
        /\ ~contains(lower(jobs[n].description), "senior")
        /\ jobs[n].experience_level = "senior"

-----------------------------------------------------------------------------
(* C28: metro, remote_type and is_remote *)

\* C28: for every enriched record, if metro is "Remote" then remote_type is
\* "remote", and is_remote is true exactly when remote_type is "remote".
C28_RemoteMetroIsRemote ==
    \A n \in Records :
        /\ jobs[n].metro = Str("Remote") => jobs[n].remote_type = "remote"
        /\ jobs[n].is_remote = (jobs[n].remote_type = "remote")

\* A record whose raw flag is false and whose location holds "hybrid" too
\* has metro "Remote", remote_type "remote" and is_remote true.
C28_Witness ==
    \E n \in Records :
        /\ Kept[n].is_remote = Bool(FALSE)
        /\ contains(lower(jobs[n].location), "hybrid")
        /\ jobs[n].metro = Str("Remote")
        /\ jobs[n].remote_type = "remote"
        /\ jobs[n].is_remote

-----------------------------------------------------------------------------
(* C29: skills and skills_by_category *)

\* The categories of skills_by_category that list a skill with a count.
CategoriesOf(skill, count) ==
    { c \in DOMAIN intel.skills_by_category :
        \E i \in DOMAIN intel.skills_by_category[c][2] :
            intel.skills_by_category[c][2][i] = <<skill, count>> }

\* The categories that list a skill at all.
CategoriesListing(skill) ==
    { c \in DOMAIN intel.skills_by_category : has_key(intel.skills_by_category[c][2], skill) }

\* Every pair of skills is under exactly one category with the same count.
SkillsAreCategorized ==
    \A i \in DOMAIN intel.skills :
        /\ Cardinality(CategoriesListing(intel.skills[i][1])) = 1
        /\ CategoriesOf(intel.skills[i][1], intel.skills[i][2])
               = CategoriesListing(intel.skills[i][1])

\* C29 as stated: in every summary skills and skills_by_category hold the
\* same skill-to-count pairs: every skill key of skills appears under
\* exactly one category of skills_by_category with the same count, and
\* every skill listed under a category appears in skills with the same
\* count.
C29_SamePairs ==
    Aggregated =>
        /\ SkillsAreCategorized
        /\ \A c \in DOMAIN intel.skills_by_category :
               \A i \in DOMAIN intel.skills_by_category[c][2] :
                   \E k \in DOMAIN intel.skills :
                       intel.skills[k] = intel.skills_by_category[c][2][i]

\* C29 amended: every skill key of skills appears under exactly one
\* category of skills_by_category with the same count; a skill listed under
\* a category appears in skills with the same count unless skills is full
\* with 50 skills, none of them counted less than the omitted one.
C29_SkillsAreTopOfCategories ==
    Aggregated =>
        /\ SkillsAreCategorized
        /\ \A c \in DOMAIN intel.skills_by_category :
               \A i \in DOMAIN intel.skills_by_category[c][2] :
                   LET pair == intel.skills_by_category[c][2][i]
                   IN  \/ \E k \in DOMAIN intel.skills : intel.skills[k] = pair
                       \/ /\ ~has_key(intel.skills, pair[1])
                          /\ Len(intel.skills) = 50
                          /\ \A k \in DOMAIN intel.skills : intel.skills[k][2] >= pair[2]

\* A summary whose categories list 54 skills, 50 of them in skills, one of
\* these counted twice.
C29_Witness ==
    /\ Aggregated
    /\ sum([c \in DOMAIN intel.skills_by_category |->
               Len(intel.skills_by_category[c][2])]) = 54
    /\ Len(intel.skills) = 50
    /\ \E k \in DOMAIN intel.skills : intel.skills[k][2] = 2

-----------------------------------------------------------------------------
(* C30: the bounds of the salary statistics *)

\* value lies between salary_stats.min and salary_stats.max.
WithinStats(value) ==
    /\ dict_get(intel.salary_stats, "min", 0) <= value
    /\ value <= dict_get(intel.salary_stats, "max", 0)

\* The median and the avg of every entry of a breakdown lie between them.
EntriesWithinStats(breakdown) ==
    \A g \in DOMAIN breakdown :
        /\ WithinStats(dict_get(breakdown[g][2], "median", 0))
        /\ WithinStats(dict_get(breakdown[g][2], "avg", 0))

\* C30: whenever salary_stats is non-empty, min <= median <= max and
\* min <= avg <= max hold, and for every entry of salary_by_category and
\* salary_by_seniority the entry's median and avg lie between
\* salary_stats.min and salary_stats.max.
C30_StatsWithinBounds ==
    (Aggregated /\ intel.salary_stats # <<>>) =>
        /\ WithinStats(dict_get(intel.salary_stats, "median", 0))
        /\ WithinStats(dict_get(intel.salary_stats, "avg", 0))
        /\ EntriesWithinStats(intel.salary_by_category)
        /\ EntriesWithinStats(intel.salary_by_seniority)

\* A summary over distinct salaries with two categories, one of them over
\* several salaries whose avg is not their median.
C30_Witness ==
    /\ Aggregated
    /\ dict_get(intel.salary_stats, "min", 0) < dict_get(intel.salary_stats, "max", 0)
    /\ Len(intel.salary_by_category) >= 2
    /\ \E g \in DOMAIN intel.salary_by_category :
           /\ dict_get(intel.salary_by_category[g][2], "count", 0) >= 2
           /\ dict_get(intel.salary_by_category[g][2], "avg", 0)
                  # dict_get(intel.salary_by_category[g][2], "median", 0)
=============================================================================
